---- MODULE Spec2Model ----
(***************************************************************************)
(* Mission Board: conversation logging and live dissemination.             *)
(*                                                                         *)
(*   - the store (Supabase tables conversations / conversation_messages,   *)
(*     the updated_at trigger, the realtime publication),                  *)
(*   - the Ingestion API (express handlers of the backend server),         *)
(*   - the Change Notification Bridge and the Observer Registry            *)
(*     (the WebSocket server of the backend),                              *)
(*   - the Logger Clients (ConversationLogger, MissionBoardLogger,         *)
(*     DirectLogger, and the agent-logger wrappers).                       *)
(*                                                                         *)
(* The specifications share the variables:                                 *)
(*   Spec         the Ingestion API over the store, concurrent requests    *)
(*   SpecBridge   the live feed: inserts, observers, broadcast             *)
(*   SpecLoggers  the three logger classes, one object each                *)
(*   SpecWrappers spawnWithLogging / sendWithLogging calls overlapping     *)
(*   SpecClient   createAgentLogger handles and a wrapper call             *)
(***************************************************************************)
EXTENDS Integers, Sequences, FiniteSets, TLC

\* ---------------------------------------------------------------- bounds
MaxConvs == 2      \* conversations ever created
MaxMsgs  == 2      \* messages ever inserted
MaxTime  == 3      \* clock ticks
MaxLoggers == 3    \* logger objects constructed by the wrappers and handles

\* ------------------------------------------------------------- constants
NULL == "null"                       \* JS null / undefined, SQL NULL (strings)
None == <<>>                         \* an absent optional value
Some(x) == <<x>>                     \* a present optional value
NoId == 0                            \* a null identifier (uuids are 1, 2, ...)
MissingList == {"<missing>"}         \* a request body without participants
NoMetadata == [session_id |-> NULL]  \* metadata = {} (of metadata, only session_id is modelled)

\* rows of the agents table (names abstracted), and names used by callers
AgentsTable == {"nexar", "rio"}
Names       == AgentsTable \cup {"user"}

VARIABLES
    \* --- the store
    conversations,   \* table conversations: id -> row
    messages,        \* table conversation_messages: sequence of rows
    nextConvId,      \* uuid_generate_v4() for conversations
    nextMsgId,       \* uuid_generate_v4() for messages
    now,             \* the clock (NOW(), new Date())
    \* --- the Ingestion API
    reqs,            \* in-flight POST /api/conversations/:id/messages
    resp,            \* the last HTTP response sent, with the parameters of
                     \* its request, whether the store was working for it
                     \* and whether its touch reached the row
    \* --- the bridge
    feed,            \* realtime change events not yet handed to the bridge
    clients,         \* const clients = new Set(): insertion-ordered
    readyState,      \* ws.readyState per channel
    received,        \* envelopes written to each channel
    bridge,          \* history of the broadcasts
    \* --- the Logger Clients
    loggers,             \* the logger objects constructed so far
    activeConversations, \* const activeConversations = new Map()
    tasks,               \* spawnWithLogging / sendWithLogging calls
    handles,             \* objects returned by createAgentLogger
    call                 \* the last call made on a logger object, and
                         \* the objects that had an append request fail

storeVars  == <<conversations, messages, nextConvId, nextMsgId, now>>
apiVars    == <<reqs, resp>>
bridgeVars == <<feed, clients, readyState, received, bridge>>
clientVars == <<loggers, activeConversations, tasks, handles, call>>
vars == <<conversations, messages, nextConvId, nextMsgId, now,
          reqs, resp, feed, clients, readyState, received, bridge,
          loggers, activeConversations, tasks, handles, call>>

\* ------------------------------------------------------------ the store

\* participants: participants || [initiator_agent]
ParticipantsOrDefault(participants, initiator_agent) ==
    IF participants = MissingList THEN {initiator_agent} ELSE participants

\* the row the POST /api/conversations handler inserts; title is not among
\* the destructured fields, so the column keeps its default
ConversationRow(id, body, t) ==
    [ id              |-> id,
      session_id      |-> body.session_id,
      initiator_agent |-> body.initiator_agent,
      participants    |-> ParticipantsOrDefault(body.participants,
                                                body.initiator_agent),
      status          |-> "active",
      title           |-> NULL,
      created_at      |-> t,
      updated_at      |-> t ]

\* conversations.initiator_agent REFERENCES agents(name), nullable
ConversationConstraintsOk(body) ==
    body.initiator_agent = NULL \/ body.initiator_agent \in AgentsTable

\* input_tokens = 0, output_tokens = 0 defaults of the destructuring
TokensOrDefault(n) == IF n = None THEN 0 ELSE n[1]

\* a total that is a column of its own, written once with the input count
TotalTokensStored(m) == m.input_tokens

\* total_tokens INTEGER GENERATED ALWAYS AS (input_tokens + output_tokens) STORED
TotalTokens(m) == m.input_tokens + m.output_tokens

\* the row the POST /api/conversations/:id/messages handler inserts; model
\* is not among the destructured fields, total_tokens is generated
MessageRow(id, convId, body, t) ==
    [ id              |-> id,
      conversation_id |-> convId,
      agent_name      |-> body.agent_name,
      role            |-> body.role,
      content         |-> body.content,
      input_tokens    |-> TokensOrDefault(body.input_tokens),
      output_tokens   |-> TokensOrDefault(body.output_tokens),
      total_tokens    |-> TotalTokens(
                             [input_tokens  |-> TokensOrDefault(body.input_tokens),
                              output_tokens |-> TokensOrDefault(body.output_tokens)]),
      model           |-> NULL,
      metadata        |-> body.metadata,
      created_at      |-> t ]

\* constraints of conversation_messages: the foreign keys and NOT NULL
MessageConstraintsOk(convId, body) ==
    /\ convId \in DOMAIN conversations
    /\ body.agent_name = NULL \/ body.agent_name \in AgentsTable
    /\ body.role # NULL
    /\ body.content # NULL

\* trigger_update_conversation_timestamp: AFTER INSERT ... SET updated_at = NOW()
update_conversation_timestamp(convs, convId, t) ==
    [convs EXCEPT ![convId].updated_at = t]

\* .update({ updated_at: ts }).eq('id', id): no row matched, no change
TouchConversation(convs, convId, ts) ==
    IF convId \in DOMAIN convs
    THEN [convs EXCEPT ![convId].updated_at = ts]
    ELSE convs

Tick ==
    /\ now < MaxTime
    /\ now' = now + 1
    /\ UNCHANGED <<conversations, messages, nextConvId, nextMsgId>>
    /\ UNCHANGED apiVars
    /\ UNCHANGED bridgeVars

\* ------------------------------------------------- observers (channels)

Channels == {"w1", "w2"}

Range(q) == {q[i] : i \in DOMAIN q}

\* channels whose socket is open
OpenChannels == {ch \in Channels : readyState[ch] = "OPEN"}

\* ------------------------------------------------------- client objects

Tasks == {"t1", "t2"}
Handles == {"h1", "h2"}

\* no call made / no handle created
\* (reqConv keeps the conversation the request message was sent to)
IdleTask == [pc |-> "idle", kind |-> NULL, logger |-> 0, sess |-> NULL,
             conv |-> NoId, invoked |-> FALSE, error |-> NULL, result |-> NoId,
             reqConv |-> NoId]
\* the argument of handle.log({...}) a caller makes when it gives no counts
NoCounts == [content |-> "note", inputTokens |-> None, outputTokens |-> None,
             model |-> None]

\* no coordinateProject / relayConversation running on a handle
NoWorkflow == [pc |-> "none", kind |-> NULL, participant |-> NULL, agents |-> <<>>,
               script |-> <<>>, pending |-> NoId, results |-> <<>>,
               opened |-> NoId, returned |-> NoId]

NoHandle == [pc |-> "none", logger |-> 0, sess |-> NULL, conv |-> NoId,
             arg |-> NoCounts, wf |-> NoWorkflow]

\* no call made on a logger object yet
NoCall == [i |-> 0, op |-> NULL, outcome |-> "ok", ok |-> FALSE, threw |-> FALSE,
           data |-> FALSE, before |-> NoId, failed |-> {}]

\* -------------------------------------------------------- Ingestion API

Reqs == {"r1", "r2"}

IdleReq == [pc |-> "idle", conv |-> NoId, data |-> None, ts |-> 0]

\* req.params / req.query of a request: the :id of the path, from and to
NoParams == [id |-> NoId, from |-> None, to |-> None, agent |-> NULL]
PathId(id) == [NoParams EXCEPT !.id = id]

\* res.status(status).json(data)
Response(op, status, data, params) ==
    [op |-> op, status |-> status, data |-> data, req |-> params,
     storeOk |-> TRUE, touched |-> FALSE]

\* an insert that keeps the stored row when one has the session_id already
InsertUnlessSessionKnown(convs, row) ==
    IF \E c \in DOMAIN convs : convs[c].session_id = row.session_id
    THEN convs
    ELSE convs @@ (row.id :> row)

\* supabase.from('conversations').insert({...}): a new row under the id the
\* store generates; session_id has no unique constraint
InsertConversation(convs, row) == convs @@ (row.id :> row)

\* POST /api/conversations; storeOk = FALSE is the store rejecting or
\* unreachable (error set in the supabase result)
OpenConversation(body, storeOk) ==
    /\ nextConvId <= MaxConvs
    /\ IF storeOk /\ ConversationConstraintsOk(body)
       THEN LET row == ConversationRow(nextConvId, body, now) IN
            /\ conversations' = InsertConversation(conversations, row)
            /\ nextConvId' = nextConvId + 1
            /\ resp' = Response("openConversation", 201, Some(row), NoParams)
       ELSE /\ UNCHANGED <<conversations, nextConvId>>
            /\ resp' = [Response("openConversation", 500, None, NoParams)
                           EXCEPT !.storeOk = storeOk]
    /\ UNCHANGED <<messages, nextMsgId, now, reqs>>
    /\ UNCHANGED bridgeVars

\* an insert that writes over the newest stored message
InsertMessageOverwrites(msgs, row) ==
    IF msgs = <<>> THEN <<row>> ELSE [msgs EXCEPT ![Len(msgs)] = row]

\* supabase.from('conversation_messages').insert([{...}]): a new row, the
\* stored ones untouched
InsertMessage(msgs, row) == Append(msgs, row)

\* POST /api/conversations/:id/messages, up to the insert's result: the
\* insert, its trigger and its change event are one transaction of the store
AppendInsert(r, convId, body, storeOk) ==
    /\ reqs[r].pc = "idle"
    /\ nextMsgId <= MaxMsgs
    /\ IF storeOk /\ MessageConstraintsOk(convId, body)
       THEN LET row == MessageRow(nextMsgId, convId, body, now) IN
            /\ messages' = InsertMessage(messages, row)
            /\ nextMsgId' = nextMsgId + 1
            /\ conversations' = update_conversation_timestamp(conversations, convId, now)
            /\ feed' = Append(feed, row)
            /\ bridge' = [bridge EXCEPT !.atInsert = Append(@, OpenChannels)]
            /\ reqs' = [reqs EXCEPT ![r] = [pc |-> "inserted", conv |-> convId,
                                            data |-> Some(row), ts |-> 0]]
            /\ UNCHANGED resp
       ELSE /\ UNCHANGED <<messages, nextMsgId, conversations, feed, bridge, reqs>>
            /\ resp' = [Response("appendMessage", 500, None, PathId(convId))
                           EXCEPT !.storeOk = storeOk]
    /\ UNCHANGED <<nextConvId, now>>
    /\ UNCHANGED <<clients, readyState, received>>

\* the handler resumes after the insert: new Date().toISOString()
AppendComputeTouch(r) ==
    /\ reqs[r].pc = "inserted"
    /\ reqs' = [reqs EXCEPT ![r].pc = "touching", ![r].ts = now]
    /\ UNCHANGED resp
    /\ UNCHANGED storeVars
    /\ UNCHANGED bridgeVars

\* a handler that throws the error of the update, as it does the insert's
AfterTouchThrows(touchOk, data) ==
    IF touchOk THEN [status |-> 201, data |-> data] ELSE [status |-> 500, data |-> None]

\* await supabase.from('conversations').update(..).eq('id', id): the result
\* is not destructured, then res.status(201).json(data)
AfterTouch(touchOk, data) == [status |-> 201, data |-> data]

\* the update reaches the store (its result is not inspected), then
\* res.status(201).json(data)
AppendTouchApply(r, storeOk) ==
    /\ reqs[r].pc = "touching"
    /\ conversations' = IF storeOk
                        THEN TouchConversation(conversations, reqs[r].conv, reqs[r].ts)
                        ELSE conversations
    /\ LET res == AfterTouch(storeOk, reqs[r].data) IN
       resp' = [Response("appendMessage", res.status, res.data, PathId(reqs[r].conv))
                   EXCEPT !.storeOk = storeOk,
                          !.touched = storeOk /\ reqs[r].conv \in DOMAIN conversations]
    /\ reqs' = [reqs EXCEPT ![r] = IdleReq]
    /\ UNCHANGED <<messages, nextConvId, nextMsgId, now>>
    /\ UNCHANGED bridgeVars

\* the whole POST /api/conversations/:id/messages handler on a request that
\* no other request interleaves with: insert, touch, respond
AppendMessage(convId, body, storeOk) ==
    /\ nextMsgId <= MaxMsgs
    /\ IF storeOk /\ MessageConstraintsOk(convId, body)
       THEN LET row == MessageRow(nextMsgId, convId, body, now) IN
            /\ messages' = InsertMessage(messages, row)
            /\ nextMsgId' = nextMsgId + 1
            /\ conversations' = TouchConversation(
                   update_conversation_timestamp(conversations, convId, now),
                   convId, now)
            /\ feed' = Append(feed, row)
            /\ bridge' = [bridge EXCEPT !.atInsert = Append(@, OpenChannels)]
            /\ resp' = [Response("appendMessage", 201, Some(row), PathId(convId))
                           EXCEPT !.touched = TRUE]
       ELSE /\ UNCHANGED <<messages, nextMsgId, conversations, feed, bridge>>
            /\ resp' = [Response("appendMessage", 500, None, PathId(convId))
                           EXCEPT !.storeOk = storeOk]
    /\ UNCHANGED <<nextConvId, now, reqs>>
    /\ UNCHANGED <<clients, readyState, received>>

\* the orders in which a query with .order(column, { ascending }) returns
\* the rows S: every arrangement of them along the column (the order of rows
\* with equal keys is not determined)
OrderBy(S, column, ascending) ==
    {q \in [1..Cardinality(S) -> S] :
        /\ \A i, j \in 1..Cardinality(S) : i # j => q[i] # q[j]
        /\ \A i, j \in 1..Cardinality(S) :
              i < j => IF ascending THEN q[i][column] <= q[j][column]
                                    ELSE q[i][column] >= q[j][column]}

\* the messages of a conversation, the newest first
MessagesOfNewestFirst(id) ==
    OrderBy({m \in Range(messages) : m.conversation_id = id}, "created_at", FALSE)

\* .eq('conversation_id', id).order('created_at', { ascending: true })
MessagesOf(id) ==
    OrderBy({m \in Range(messages) : m.conversation_id = id}, "created_at", TRUE)

\* GET /api/conversations/:id; .single() on no row is an error of the store
GetConversation(id, storeOk) ==
    /\ IF storeOk /\ id \in DOMAIN conversations
       THEN \E ms \in MessagesOf(id) :
               resp' = Response("getConversation", 200,
                                Some([conversation |-> conversations[id],
                                      messages     |-> ms]),
                                PathId(id))
       ELSE resp' = [Response("getConversation", 500, None, PathId(id))
                        EXCEPT !.storeOk = storeOk]
    /\ UNCHANGED reqs
    /\ UNCHANGED storeVars
    /\ UNCHANGED bridgeVars

\* msg.input_tokens || 0 on a number
\* *, messages:conversation_messages(count): the row with the number of its
\* messages embedded
ListRowOf(convs, msgs, c) ==
    convs[c] @@ ("messages" :> Cardinality({i \in DOMAIN msgs :
                                               msgs[i].conversation_id = c}))

ListRow(c) == ListRowOf(conversations, messages, c)

\* GET /api/conversations: every conversation, by created_at descending
ListConversations(storeOk) ==
    /\ IF storeOk
       THEN \E q \in OrderBy({ListRow(c) : c \in DOMAIN conversations},
                             "created_at", FALSE) :
              resp' = Response("listConversations", 200, Some([rows |-> q]), NoParams)
       ELSE resp' = [Response("listConversations", 500, None, NoParams)
                        EXCEPT !.storeOk = FALSE]
    /\ UNCHANGED reqs
    /\ UNCHANGED storeVars
    /\ UNCHANGED bridgeVars

\* fetchConversations of the Conversations page: the same select sent to the
\* store by the browser, by updated_at descending; the rows it keeps with
\* setConversations(data || []) are held in the answer
FetchConversations(storeOk) ==
    /\ IF storeOk
       THEN \E q \in OrderBy({ListRow(c) : c \in DOMAIN conversations},
                             "updated_at", FALSE) :
              resp' = Response("fetchConversations", 200, Some([rows |-> q]), NoParams)
       ELSE resp' = [Response("fetchConversations", 500, None, NoParams)
                        EXCEPT !.storeOk = FALSE]
    /\ UNCHANGED reqs
    /\ UNCHANGED storeVars
    /\ UNCHANGED bridgeVars

\* a filter that looks at the initiator alone
MatchesInitiatorOnly(cv, agentId) == cv.initiator_agent = agentId

\* .or(`initiator_agent.eq.${agentId},participants.cs.{${agentId}}`)
MatchesAgent(cv, agentId) ==
    cv.initiator_agent = agentId \/ agentId \in cv.participants

\* GET /api/agents/:agentId/conversations
ListByAgent(agentId, storeOk) ==
    LET params == [NoParams EXCEPT !.agent = agentId] IN
    /\ IF storeOk
       THEN \E q \in OrderBy({ListRow(c) : c \in {d \in DOMAIN conversations :
                                      MatchesAgent(conversations[d], agentId)}},
                             "created_at", FALSE) :
              resp' = Response("listByAgent", 200, Some([rows |-> q]), params)
       ELSE resp' = [Response("listByAgent", 500, None, params)
                        EXCEPT !.storeOk = FALSE]
    /\ UNCHANGED reqs
    /\ UNCHANGED storeVars
    /\ UNCHANGED bridgeVars

FalsyToZero(n) == IF n = 0 THEN 0 ELSE n

\* a tally that counts messages and leaves the output tokens out
TallySkipsOutput(entry, msg) ==
    [entry EXCEPT !.total_messages = @ + 1,
                  !.total_input_tokens = @ + FalsyToZero(msg.input_tokens)]

\* stats[msg.agent_name].total_messages++ and the two sums
Tally(entry, msg) ==
    [entry EXCEPT !.total_messages = @ + 1,
                  !.total_input_tokens = @ + FalsyToZero(msg.input_tokens),
                  !.total_output_tokens = @ + FalsyToZero(msg.output_tokens)]

\* data.forEach(msg => { if (!stats[msg.agent_name]) stats[..] = {..0}; ... })
RECURSIVE StatsFold(_, _)
StatsFold(data, stats) ==
    IF data = <<>> THEN stats
    ELSE LET msg  == Head(data)
             k    == msg.agent_name
             base == IF k \in DOMAIN stats THEN stats
                     ELSE stats @@ (k :> [agent_name          |-> k,
                                          total_messages      |-> 0,
                                          total_input_tokens  |-> 0,
                                          total_output_tokens |-> 0])
         IN StatsFold(Tail(data), [base EXCEPT ![k] = Tally(@, msg)])

\* GET /api/stats/agents: all the messages are read, folded by agent_name
\* and the entries returned (here keyed by agent_name)
GetAgentStats(storeOk) ==
    /\ resp' = IF storeOk
               THEN Response("stats", 200, Some(StatsFold(messages, <<>>)), NoParams)
               ELSE [Response("stats", 500, None, NoParams) EXCEPT !.storeOk = FALSE]
    /\ UNCHANGED reqs
    /\ UNCHANGED storeVars
    /\ UNCHANGED bridgeVars

\* a check that accepts a request when one of the bounds is given
BoundsGivenEitherOne(from, to) == from # None \/ to # None

\* if (!from || !to) return res.status(400): both query parameters present
\* and not empty
BoundsGiven(from, to) == from # None /\ to # None

\* a range that leaves out its end points
InRangeExclusive(t, from, to) ==
    (from = None \/ t > from[1]) /\ (to = None \/ t < to[1])

\* .gte('created_at', from).lte('created_at', to); a filter without a value
\* filters nothing
InRange(t, from, to) ==
    (from = None \/ t >= from[1]) /\ (to = None \/ t <= to[1])

\* a foreign key without ON DELETE CASCADE action
CascadeDeleteSkipped(msgs, D) == msgs

\* conversation_id REFERENCES conversations(id) ON DELETE CASCADE
CascadeDelete(msgs, D) == SelectSeq(msgs, LAMBDA m : m.conversation_id \notin D)

\* DELETE /api/conversations/delete-range?from=..&to=..; the delete and its
\* cascade are one statement of the store, data is the deleted rows
DeleteRange(from, to, storeOk) ==
    LET params == [NoParams EXCEPT !.from = from, !.to = to] IN
    /\ IF ~BoundsGiven(from, to)
       THEN /\ resp' = Response("purgeRange", 400, None, params)
            /\ UNCHANGED <<conversations, messages>>
       ELSE IF storeOk
       THEN LET D == {c \in DOMAIN conversations :
                        InRange(conversations[c].created_at, from, to)}
            IN /\ conversations' = [c \in DOMAIN conversations \ D |-> conversations[c]]
               /\ messages' = CascadeDelete(messages, D)
               /\ resp' = Response("purgeRange", 200,
                              Some([success |-> TRUE, deletedCount |-> Cardinality(D)]),
                              params)
       ELSE /\ resp' = [Response("purgeRange", 500, None, params)
                           EXCEPT !.storeOk = FALSE]
            /\ UNCHANGED <<conversations, messages>>
    /\ UNCHANGED <<nextConvId, nextMsgId, now, reqs>>
    /\ UNCHANGED bridgeVars

\* handleConfirmDelete of the Conversations page: without both dates it
\* returns; else it sends DELETE /api/conversations/delete-range with the
\* dates as timestamps and, when the answer is ok, fetches the list again
\* (fetchConversations); an answer that is not ok is thrown into the toast
HandleConfirmDelete(fromDate, toDate, deleteOk, fetchOk) ==
    LET params == [NoParams EXCEPT !.from = fromDate, !.to = toDate]
        D      == {c \in DOMAIN conversations :
                     InRange(conversations[c].created_at, fromDate, toDate)}
        convs  == [c \in DOMAIN conversations \ D |-> conversations[c]]
        msgs   == CascadeDelete(messages, D)
    IN
    /\ IF ~BoundsGiven(fromDate, toDate)
       THEN UNCHANGED <<conversations, messages, resp>>
       ELSE IF ~deleteOk
       THEN /\ UNCHANGED <<conversations, messages>>
            /\ resp' = [Response("handleConfirmDelete", 500, None, params)
                           EXCEPT !.storeOk = FALSE]
       ELSE /\ conversations' = convs
            /\ messages' = msgs
            /\ IF fetchOk
               THEN \E q \in OrderBy({ListRowOf(convs, msgs, c) : c \in DOMAIN convs},
                                     "updated_at", FALSE) :
                      resp' = Response("handleConfirmDelete", 200,
                                       Some([rows |-> q, deletedCount |-> Cardinality(D)]),
                                       params)
               ELSE resp' = [Response("handleConfirmDelete", 500, None, params)
                                EXCEPT !.storeOk = FALSE]
    /\ UNCHANGED <<nextConvId, nextMsgId, now, reqs>>
    /\ UNCHANGED bridgeVars

\* ---------------------------------------------------------------- inputs

Sessions == {"s1"}

ConvBodies ==
    [ initiator_agent : {"nexar"},
      participants    : {MissingList, {"user"}, {"nexar", "rio"}},
      session_id      : Sessions ]

MsgBodies ==
    [ agent_name    : {"nexar", "user"},
      role          : {"user"},
      content       : {"hi"},
      input_tokens  : {None},
      output_tokens : {None},
      metadata      : {NoMetadata} ]

InitServer ==
    /\ conversations = <<>>
    /\ messages = <<>>
    /\ nextConvId = 1
    /\ nextMsgId = 1
    /\ now = 1
    /\ reqs = [r \in Reqs |-> IdleReq]
    /\ resp = Response(NULL, 0, None, NoParams)
    /\ feed = <<>>
    /\ clients = <<>>
    /\ readyState = [ch \in Channels |-> "NONE"]
    /\ received = [ch \in Channels |-> <<>>]
    /\ bridge = [ log         |-> <<>>,
                  missed      |-> [ch \in Channels |-> {}],
                  atInsert    |-> <<>>,
                  atBroadcast |-> <<>>,
                  failed      |-> <<>>,
                  threw       |-> {} ]

\* agent-logger.js loaded, nothing called yet
InitClient ==
    /\ activeConversations = <<>>
    /\ tasks = [t \in Tasks |-> IdleTask]
    /\ handles = [h \in Handles |-> NoHandle]

Init ==
    /\ InitServer
    /\ InitClient
    /\ loggers = <<>>
    /\ call = NoCall

Next ==
    \/ Tick /\ UNCHANGED clientVars
    \/ \E body \in ConvBodies, ok \in BOOLEAN :
          OpenConversation(body, ok) /\ UNCHANGED clientVars
    \/ \E r \in Reqs, c \in 1..MaxConvs, body \in MsgBodies, ok \in BOOLEAN :
          AppendInsert(r, c, body, ok) /\ UNCHANGED clientVars
    \/ \E r \in Reqs : AppendComputeTouch(r) /\ UNCHANGED clientVars
    \/ \E r \in Reqs, ok \in BOOLEAN : AppendTouchApply(r, ok) /\ UNCHANGED clientVars

Spec == Init /\ [][Next]_vars

\* request bodies with required fields present, absent and empty, and
\* with a negative token count
ApiConvBodies ==
    [ initiator_agent : {"nexar", NULL},
      participants    : {MissingList},
      session_id      : Sessions ]

ApiMsgBodies ==
    [ agent_name    : {"nexar"},
      role          : {"user", NULL},
      content       : {"hi", "", NULL},
      input_tokens  : {None, Some(-1)},
      output_tokens : {None},
      metadata      : {NoMetadata} ]

\* the Ingestion API with one append in flight and reads
NextApi ==
    \/ Tick /\ UNCHANGED clientVars
    \/ \E body \in ApiConvBodies, ok \in BOOLEAN :
          OpenConversation(body, ok) /\ UNCHANGED clientVars
    \/ \E c \in 1..MaxConvs, body \in ApiMsgBodies, ok \in BOOLEAN :
          AppendInsert("r1", c, body, ok) /\ UNCHANGED clientVars
    \/ AppendComputeTouch("r1") /\ UNCHANGED clientVars
    \/ \E ok \in BOOLEAN : AppendTouchApply("r1", ok) /\ UNCHANGED clientVars
    \/ \E c \in 1..MaxConvs, ok \in BOOLEAN :
          GetConversation(c, ok) /\ UNCHANGED clientVars

SpecApi == Init /\ [][NextApi]_vars

\* ------------------------------------------- bridge and observer registry

\* clients.add(ws): a Set keeps insertion order and no duplicates
SetAdd(set, ch) == IF ch \in Range(set) THEN set ELSE Append(set, ch)

\* a close handler that forgets to unregister
SetDeleteForgets(set, ch) == set

\* clients.delete(ws)
SetDelete(set, ch) == SelectSeq(set, LAMBDA x : x # ch)

\* a connection handler that replays the past envelopes
OnConnectionReplays(log) == log

\* what the connection handler writes to the new socket: nothing
OnConnectionWrites(log) == <<>>

\* wss.on('connection'): the socket is open, the handler registers it
Connect(ch) ==
    /\ readyState[ch] = "NONE"
    /\ readyState' = [readyState EXCEPT ![ch] = "OPEN"]
    /\ clients' = SetAdd(clients, ch)
    /\ received' = [received EXCEPT ![ch] = OnConnectionWrites(bridge.log)]
    /\ bridge' = [bridge EXCEPT !.missed[ch] = {e.data.id : e \in Range(bridge.log)}]
    /\ UNCHANGED feed
    /\ UNCHANGED storeVars
    /\ UNCHANGED apiVars

\* the closing handshake starts (either side): readyState is CLOSING and the
\* 'close' event has not been emitted yet
BeginClose(ch) ==
    /\ readyState[ch] = "OPEN"
    /\ readyState' = [readyState EXCEPT ![ch] = "CLOSING"]
    /\ UNCHANGED <<feed, clients, received, bridge>>
    /\ UNCHANGED storeVars
    /\ UNCHANGED apiVars

\* the socket is closed and ws.on('close') runs
CloseEvent(ch) ==
    /\ readyState[ch] \in {"OPEN", "CLOSING"}
    /\ readyState' = [readyState EXCEPT ![ch] = "CLOSED"]
    /\ clients' = SetDelete(clients, ch)
    /\ UNCHANGED <<feed, received, bridge>>
    /\ UNCHANGED storeVars
    /\ UNCHANGED apiVars

\* JSON.stringify({ type: 'new_message', data: payload.new })
Envelope(payload) == [type |-> "new_message", data |-> payload]

\* outcomes of client.send on an open socket: the envelope is written; the
\* write fails later, off the call; or the call throws
SendOutcomes == {"ok", "fail", "throw"}

\* a socket that puts the newest frame ahead of the frames already written
SocketWriteJumpsQueue(q, env) == <<env>> \o q

\* client.send(data): frames are written to the socket in the order of the calls
SocketWrite(q, env) == Append(q, env)

\* clients.forEach(client => { if (client.readyState === OPEN) client.send(..) })
\* from the first of cs on; an exception of send leaves forEach
RECURSIVE ForEachSend(_, _, _, _)
ForEachSend(cs, env, out, acc) ==
    IF cs = <<>> THEN acc
    ELSE LET ch == Head(cs) IN
         IF readyState[ch] # "OPEN"
         THEN ForEachSend(Tail(cs), env, out, acc)
         ELSE CASE out[ch] = "ok" ->
                     ForEachSend(Tail(cs), env, out,
                        [acc EXCEPT !.received[ch] = SocketWrite(@, env)])
                [] out[ch] = "fail" ->
                     ForEachSend(Tail(cs), env, out,
                        [acc EXCEPT !.failed = @ \cup {ch}])
                [] OTHER ->
                     [acc EXCEPT !.failed = @ \cup {ch}, !.threw = TRUE]

\* the postgres_changes INSERT callback, for the oldest pending change event
Broadcast(out) ==
    /\ feed # <<>>
    /\ LET payload == Head(feed)
           res == ForEachSend(clients, Envelope(payload), out,
                     [received |-> received, failed |-> {}, threw |-> FALSE])
       IN /\ received' = res.received
          /\ bridge' = [bridge EXCEPT
                 !.log         = Append(@, Envelope(payload)),
                 !.atBroadcast = Append(@, OpenChannels),
                 !.failed      = Append(@, res.failed),
                 !.threw       = IF res.threw THEN @ \cup {payload.id} ELSE @]
    /\ feed' = Tail(feed)
    /\ UNCHANGED <<clients, readyState>>
    /\ UNCHANGED storeVars
    /\ UNCHANGED apiVars

BridgeConvBodies ==
    [ initiator_agent : {"nexar"},
      participants    : {MissingList},
      session_id      : Sessions ]

BridgeMsgBodies ==
    [ agent_name    : {"nexar"},
      role          : {"user"},
      content       : {"hi"},
      input_tokens  : {None},
      output_tokens : {None},
      metadata      : {NoMetadata} ]

NextBridge ==
    \/ \E body \in BridgeConvBodies :
          nextConvId = 1 /\ OpenConversation(body, TRUE) /\ UNCHANGED clientVars
    \/ \E body \in BridgeMsgBodies :
          AppendInsert("r1", 1, body, TRUE) /\ UNCHANGED clientVars
    \/ AppendComputeTouch("r1") /\ UNCHANGED clientVars
    \/ AppendTouchApply("r1", TRUE) /\ UNCHANGED clientVars
    \/ \E ch \in Channels : Connect(ch) /\ UNCHANGED clientVars
    \/ \E ch \in Channels : BeginClose(ch) /\ UNCHANGED clientVars
    \/ \E ch \in Channels : CloseEvent(ch) /\ UNCHANGED clientVars
    \/ \E out \in [Channels -> SendOutcomes] : Broadcast(out) /\ UNCHANGED clientVars

SpecBridge == Init /\ [][NextBridge]_vars

\* ?from=..&to=..: absent, or a timestamp
PurgeBounds == {None} \cup {Some(t) : t \in 1..MaxTime}

\* conversations opened, appended to and purged by time range
NextPurge ==
    \/ Tick /\ UNCHANGED clientVars
    \/ \E body \in BridgeConvBodies :
          OpenConversation(body, TRUE) /\ UNCHANGED clientVars
    \/ \E c \in 1..MaxConvs, body \in BridgeMsgBodies :
          AppendMessage(c, body, TRUE) /\ UNCHANGED clientVars
    \/ \E from \in PurgeBounds, to \in PurgeBounds :
          DeleteRange(from, to, TRUE) /\ UNCHANGED clientVars
    \/ DeleteRange(Some(1), Some(MaxTime), FALSE) /\ UNCHANGED clientVars

SpecPurge == Init /\ [][NextPurge]_vars

\* request bodies with token counts absent and given
TokenMsgBodies ==
    [ agent_name    : {"nexar", "rio"},
      role          : {"assistant"},
      content       : {"hi"},
      input_tokens  : {None, Some(10)},
      output_tokens : {None, Some(20)},
      metadata      : {NoMetadata} ]

\* one conversation, appended to with token counts, read back and tallied
NextTokens ==
    \/ Tick /\ UNCHANGED clientVars
    \/ \E body \in BridgeConvBodies :
          nextConvId = 1 /\ OpenConversation(body, TRUE) /\ UNCHANGED clientVars
    \/ \E body \in TokenMsgBodies, ok \in BOOLEAN :
          AppendMessage(1, body, ok) /\ UNCHANGED clientVars
    \/ \E ok \in BOOLEAN : GetConversation(1, ok) /\ UNCHANGED clientVars
    \/ \E ok \in BOOLEAN : GetAgentStats(ok) /\ UNCHANGED clientVars

SpecTokens == Init /\ [][NextTokens]_vars

\* conversations appended to one call after the other and read back
NextRead ==
    \/ Tick /\ UNCHANGED clientVars
    \/ \E body \in BridgeConvBodies :
          OpenConversation(body, TRUE) /\ UNCHANGED clientVars
    \/ \E c \in 1..MaxConvs, body \in BridgeMsgBodies :
          AppendMessage(c, body, TRUE) /\ UNCHANGED clientVars
    \/ \E c \in 1..MaxConvs, ok \in BOOLEAN :
          GetConversation(c, ok) /\ UNCHANGED clientVars

SpecRead == Init /\ [][NextRead]_vars

\* conversations of several participant lists, listed by participant
NextByAgent ==
    \/ Tick /\ UNCHANGED clientVars
    \/ \E body \in ConvBodies :
          OpenConversation(body, TRUE) /\ UNCHANGED clientVars
    \/ \E a \in Names, ok \in BOOLEAN :
          ListByAgent(a, ok) /\ UNCHANGED clientVars

SpecByAgent == Init /\ [][NextByAgent]_vars

\* conversations appended to and listed, by the server and by the page
NextLists ==
    \/ Tick /\ UNCHANGED clientVars
    \/ \E body \in BridgeConvBodies :
          OpenConversation(body, TRUE) /\ UNCHANGED clientVars
    \/ \E c \in 1..MaxConvs, body \in BridgeMsgBodies :
          AppendMessage(c, body, TRUE) /\ UNCHANGED clientVars
    \/ \E ok \in BOOLEAN : ListConversations(ok) /\ UNCHANGED clientVars
    \/ \E ok \in BOOLEAN : FetchConversations(ok) /\ UNCHANGED clientVars

SpecLists == Init /\ [][NextLists]_vars

\* an append in flight, its insert and its touch apart, while conversations
\* are purged by time range
NextRace ==
    \/ Tick /\ UNCHANGED clientVars
    \/ \E body \in BridgeConvBodies :
          OpenConversation(body, TRUE) /\ UNCHANGED clientVars
    \/ \E c \in 1..MaxConvs, body \in BridgeMsgBodies :
          AppendInsert("r1", c, body, TRUE) /\ UNCHANGED clientVars
    \/ AppendComputeTouch("r1") /\ UNCHANGED clientVars
    \/ AppendTouchApply("r1", TRUE) /\ UNCHANGED clientVars
    \/ \E from \in PurgeBounds \ {None}, to \in PurgeBounds \ {None} :
          DeleteRange(from, to, TRUE) /\ UNCHANGED clientVars

SpecRace == Init /\ [][NextRace]_vars

\* the Conversations page of a dashboard over a store that agents write to
NextObserver ==
    \/ Tick /\ UNCHANGED clientVars
    \/ \E body \in BridgeConvBodies :
          OpenConversation(body, TRUE) /\ UNCHANGED clientVars
    \/ \E c \in 1..MaxConvs, body \in BridgeMsgBodies :
          AppendMessage(c, body, TRUE) /\ UNCHANGED clientVars
    \/ \E ok \in BOOLEAN : FetchConversations(ok) /\ UNCHANGED clientVars
    \/ \E from \in PurgeBounds, to \in PurgeBounds, dOk \in BOOLEAN, fOk \in BOOLEAN :
          HandleConfirmDelete(from, to, dOk, fOk) /\ UNCHANGED clientVars

SpecObserver == Init /\ [][NextObserver]_vars

\* one append at a time, its insert and its touch each succeeding or failing
NextTouch ==
    \/ Tick /\ UNCHANGED clientVars
    \/ \E body \in BridgeConvBodies :
          OpenConversation(body, TRUE) /\ UNCHANGED clientVars
    \/ \E c \in 1..MaxConvs, body \in BridgeMsgBodies, ok \in BOOLEAN :
          AppendInsert("r1", c, body, ok) /\ UNCHANGED clientVars
    \/ AppendComputeTouch("r1") /\ UNCHANGED clientVars
    \/ \E ok \in BOOLEAN : AppendTouchApply("r1", ok) /\ UNCHANGED clientVars

SpecTouch == Init /\ [][NextTouch]_vars

\* ------------------------------------------------------- logger classes

Classes == {"ConversationLogger", "MissionBoardLogger", "DirectLogger"}

\* constructor: conversationId = null, sessionId = null
NewLogger(cls, initiator) ==
    [cls |-> cls, initiator |-> initiator, conversationId |-> NoId, sessionId |-> NULL]

\* outcomes of fetch: the server answers with the store working, the server
\* answers with the store failing, the server is not reached (fetch rejects)
FetchOutcomes == {"ok", "http_error", "network"}

\* the participants each class sends in the body of POST /api/conversations
StartParticipants(cls, initiator, participants) ==
    CASE cls = "ConversationLogger" ->
            \* [...new Set([this.initiator, ...participants])]
            {initiator} \cup participants
      [] cls = "MissionBoardLogger" ->
            \* participants || [this.initiator]
            IF participants = MissingList THEN {initiator} ELSE participants
      [] OTHER ->
            \* DirectLogger.startSession: participants: ['user']
            {"user"}

\* participants.join(', '), the names in one order of the list
RECURSIVE JoinNames(_)
JoinNames(S) ==
    IF S = {} THEN ""
    ELSE LET n == CHOOSE x \in S : TRUE
         IN IF S = {n} THEN n ELSE n \o ", " \o JoinNames(S \ {n})

\* the title each class sends: the caller's, or the class's default (the
\* arrow of the source is written ->)
TitleOrDefault(cls, initiator, participants, title) ==
    IF title # None THEN title[1]
    ELSE CASE cls = "ConversationLogger" ->
                 \* title || `${this.initiator} -> ${participants.join(', ')}`
                 initiator \o " -> " \o JoinNames(participants)
           [] cls = "MissionBoardLogger" ->
                 \* title || `${this.initiator} Session`
                 initiator \o " Session"
           [] OTHER ->
                 \* startSession(sessionId, title = 'Live Session')
                 "Live Session"

StartBody(l, participants, sessionId, title) ==
    [ initiator_agent |-> l.initiator,
      participants    |-> StartParticipants(l.cls, l.initiator, participants),
      session_id      |-> sessionId,
      title           |-> TitleOrDefault(l.cls, l.initiator, participants, title) ]

\* how startConversation / startSession ends, given response.ok:
\* ConversationLogger and MissionBoardLogger rethrow from their catch,
\* DirectLogger returns null
StartResult(cls, responseOk, id) ==
    IF responseOk
    THEN [threw |-> FALSE, returned |-> id]
    ELSE IF cls = "DirectLogger"
         THEN [threw |-> FALSE, returned |-> NoId]
         ELSE [threw |-> TRUE, returned |-> NoId]

\* a logMessage whose catch rethrows, as startConversation's does
LogMessageResultRethrows(cls, responseOk, data) ==
    IF responseOk
    THEN [threw |-> FALSE, returned |-> IF cls = "DirectLogger" THEN None ELSE data]
    ELSE [threw |-> TRUE, returned |-> None]

\* how logMessage ends, given response.ok: ConversationLogger and
\* MissionBoardLogger return the response's JSON or swallow the error;
\* DirectLogger awaits fetch without looking at the response
LogMessageResult(cls, responseOk, data) ==
    IF cls = "DirectLogger"
    THEN [threw |-> FALSE, returned |-> None]
    ELSE IF responseOk
         THEN [threw |-> FALSE, returned |-> data]
         ELSE [threw |-> FALSE, returned |-> None]

\* the body of POST /api/conversations/:id/messages; ConversationLogger adds
\* session_id: this.sessionId to the metadata
LogBody(l, msg) ==
    [ agent_name    |-> msg.agent_name,
      role          |-> msg.role,
      content       |-> msg.content,
      input_tokens  |-> msg.input_tokens,
      output_tokens |-> msg.output_tokens,
      model         |-> msg.model,
      metadata      |-> IF l.cls = "ConversationLogger"
                        THEN [session_id |-> l.sessionId]
                        ELSE NoMetadata ]

\* fetch(POST /api/conversations) as the server sees it
FetchOpenConversation(body, outcome) ==
    IF outcome = "network"
    THEN UNCHANGED storeVars /\ UNCHANGED apiVars /\ UNCHANGED bridgeVars
    ELSE OpenConversation(body, outcome = "ok")

\* fetch(POST /api/conversations/:id/messages) as the server sees it
FetchAppendMessage(convId, body, outcome) ==
    IF outcome = "network"
    THEN UNCHANGED storeVars /\ UNCHANGED apiVars /\ UNCHANGED bridgeVars
    ELSE AppendMessage(convId, body, outcome = "ok")

\* response.ok of the fetch just made
ResponseOk(outcome) == outcome # "network" /\ resp'.status = 201

\* logger.startConversation(...) / startSession(...), awaited by one caller
StartConversation(i, participants, sessionId, title, outcome) ==
    LET l == loggers[i] IN
    /\ FetchOpenConversation(StartBody(l, participants, sessionId, title), outcome)
    /\ LET ok  == ResponseOk(outcome)
           id  == IF ok THEN resp'.data[1].id ELSE NoId
           res == StartResult(l.cls, ok, id)
       IN /\ loggers' = [loggers EXCEPT ![i].sessionId = sessionId,
                                        ![i].conversationId = IF ok THEN id ELSE @]
          /\ call' = [i |-> i, op |-> "start", outcome |-> outcome, ok |-> ok,
                      threw |-> res.threw, data |-> FALSE,
                      before |-> l.conversationId,
                      failed |-> call.failed]
    /\ UNCHANGED <<activeConversations, tasks, handles>>

\* logger.logMessage(msg), awaited by one caller
LogMessage(i, msg, outcome) ==
    LET l == loggers[i] IN
    /\ IF l.conversationId = NoId
       THEN \* no active conversation: warn and return
            /\ UNCHANGED storeVars /\ UNCHANGED apiVars /\ UNCHANGED bridgeVars
            /\ call' = [i |-> i, op |-> "logMessage", outcome |-> outcome,
                        ok |-> FALSE, threw |-> FALSE, data |-> FALSE,
                        before |-> NoId, failed |-> call.failed]
       ELSE /\ FetchAppendMessage(l.conversationId, LogBody(l, msg), outcome)
            /\ LET res == LogMessageResult(l.cls, ResponseOk(outcome),
                                           IF ResponseOk(outcome) THEN resp'.data ELSE None)
               IN call' = [i |-> i, op |-> "logMessage", outcome |-> outcome,
                           ok |-> ResponseOk(outcome),
                           threw |-> res.threw, data |-> res.returned # None,
                           before |-> l.conversationId,
                           failed |-> IF ResponseOk(outcome) THEN call.failed
                                      ELSE call.failed \cup {i}]
    /\ UNCHANGED <<loggers, activeConversations, tasks, handles>>

\* an end that forgets the session and keeps the conversation identifier
EndedLoggerKeepsId(l) == [l EXCEPT !.sessionId = NULL]

\* this.conversationId = null; this.sessionId = null
EndedLogger(l) == [l EXCEPT !.conversationId = NoId, !.sessionId = NULL]

\* logger.endConversation() (ConversationLogger, MissionBoardLogger)
EndConversation(i) ==
    /\ loggers[i].cls # "DirectLogger"
    /\ loggers' = [loggers EXCEPT ![i] = EndedLogger(@)]
    /\ call' = [i |-> i, op |-> "end", outcome |-> "ok", ok |-> FALSE,
                threw |-> FALSE, data |-> FALSE,
                before |-> loggers[i].conversationId,
                failed |-> call.failed]
    /\ UNCHANGED <<activeConversations, tasks, handles>>
    /\ UNCHANGED storeVars /\ UNCHANGED apiVars /\ UNCHANGED bridgeVars

\* logger.setConversationId(id): continue an existing conversation
SetConversationId(i, id) ==
    /\ loggers' = [loggers EXCEPT ![i].conversationId = id]
    /\ call' = [i |-> i, op |-> "set", outcome |-> "ok", ok |-> FALSE,
                threw |-> FALSE, data |-> FALSE,
                before |-> loggers[i].conversationId,
                failed |-> call.failed]
    /\ UNCHANGED <<activeConversations, tasks, handles>>
    /\ UNCHANGED storeVars /\ UNCHANGED apiVars /\ UNCHANGED bridgeVars

\* one object of each class, constructed, nothing called yet
InitLoggers ==
    /\ InitServer
    /\ InitClient
    /\ loggers = << NewLogger("ConversationLogger", "nexar"),
                    NewLogger("MissionBoardLogger", "nexar"),
                    NewLogger("DirectLogger", "nexar") >>
    /\ call = NoCall

\* the title and the model the callers of this section's objects supply
SuppliedTitle == "Project Planning"
SuppliedModel == "claude-3-opus"

LoggerMsgs ==
    [ agent_name    : {"nexar", "user"},
      role          : {"user"},
      content       : {"hi"},
      input_tokens  : {None},
      output_tokens : {None},
      model         : {Some(SuppliedModel)} ]

NextLoggers ==
    \/ \E i \in 1..3, o \in FetchOutcomes :
          nextConvId = 1 /\ StartConversation(i, {"rio"}, "s1", Some(SuppliedTitle), o)
    \/ \E i \in 1..3, id \in DOMAIN conversations : SetConversationId(i, id)
    \/ \E i \in 1..3, msg \in LoggerMsgs, o \in FetchOutcomes :
          LogMessage(i, msg, o)
    \/ \E i \in 1..3 : EndConversation(i)

SpecLoggers == InitLoggers /\ [][NextLoggers]_vars

\* ------------------------------------------- agent-logger.js: wrappers

\* const key = `${initiator}:${participant}:${sessionKey}` (the names used
\* here hold no colon, so the triple determines the string)
CacheKey(initiator, participant, sessionKey) == <<initiator, participant, sessionKey>>

\* getOrCreateLogger: the cached logger, else a new ConversationLogger that
\* is cached; yields the objects, the map and the logger returned
GetOrCreateLogger(initiator, participant, sessionKey) ==
    LET key == CacheKey(initiator, participant, sessionKey) IN
    IF key \in DOMAIN activeConversations
    THEN [loggers |-> loggers, active |-> activeConversations,
          idx |-> activeConversations[key]]
    ELSE [loggers |-> Append(loggers, NewLogger("ConversationLogger", initiator)),
          active  |-> activeConversations @@ (key :> Len(loggers) + 1),
          idx     |-> Len(loggers) + 1]

\* sessionKey || `spawn-${Date.now()}`; calls are made at different times
SpawnSessionKey(sessionKey, t) == IF sessionKey = NULL THEN "spawn-" \o t ELSE sessionKey

\* estimateTokens: Math.ceil(text.length / 4), 0 for no text
EstimateTokens(text) == IF text = "" THEN 0 ELSE (Len(text) + 3) \div 4

\* the messages the wrappers log
\* title: `${initiator} -> ${agentId}: ${task.substring(0, 50)}...` of
\* spawnWithLogging, `${fromAgent} <-> ${toAgent} Session` of sendWithLogging
\* (the tasks used here are shorter than 50 characters)
WrapperTitle(kind, initiator, agentId, task) ==
    IF kind = "spawn"
    THEN initiator \o " -> " \o agentId \o ": " \o task \o "..."
    ELSE initiator \o " <-> " \o agentId \o " Session"

RequestMsg(kind, initiator, content) ==
    [ agent_name    |-> initiator,
      role          |-> "user",
      content       |-> content,
      input_tokens  |-> IF kind = "spawn" THEN Some(0) ELSE Some(EstimateTokens(content)),
      output_tokens |-> Some(0),
      model         |-> Some("N/A") ]

ResponseMsg(agentId, task, content) ==
    [ agent_name    |-> agentId,
      role          |-> "assistant",
      content       |-> content,
      input_tokens  |-> Some(EstimateTokens(task)),
      output_tokens |-> Some(EstimateTokens(content)),
      \* result?.model || 'unknown': the results used here name no model
      model         |-> Some("unknown") ]

ErrorMsg(kind, agentId) ==
    [ agent_name    |-> IF kind = "spawn" THEN agentId ELSE "system",
      role          |-> "system",
      content       |-> "Error",
      input_tokens  |-> Some(0),
      output_tokens |-> Some(0),
      model         |-> Some("system") ]

\* logger.logMessage(...) up to its fetch, in task t: without a conversation
\* it returns at once and the task goes on to `next`
TaskLogOrSkip(t, l, waiting, next) ==
    IF l.conversationId = NoId
    THEN next
    ELSE [tasks[t] EXCEPT !.pc = waiting, !.conv = l.conversationId, !.sess = l.sessionId]

\* spawnWithLogging(...) / sendWithLogging(...) up to the first fetch, as it
\* acts on the caller's task, the loggers and the cache
WrapperEnter(t, kind, sessionKey, hasFn) ==
    /\ tasks[t].pc = "idle"
    /\ Len(loggers) < MaxLoggers
    /\ IF ~hasFn
       THEN \* throw new Error('sessionsSpawn function is required ...')
            /\ tasks' = [tasks EXCEPT ![t] = [IdleTask EXCEPT !.pc = "threw",
                              !.kind = kind, !.error = "nofunction"]]
            /\ UNCHANGED <<loggers, activeConversations>>
       ELSE LET sid == IF kind = "spawn" THEN SpawnSessionKey(sessionKey, t) ELSE sessionKey
                g   == GetOrCreateLogger("nexar", "rio", sid)
                l   == g.loggers[g.idx]
                me  == [IdleTask EXCEPT !.kind = kind, !.logger = g.idx]
            IN /\ activeConversations' = g.active
               /\ IF l.conversationId = NoId
                  THEN \* logger.startConversation(...) up to its fetch
                       /\ loggers' = [g.loggers EXCEPT ![g.idx].sessionId = sid]
                       /\ tasks' = [tasks EXCEPT ![t] =
                                       [me EXCEPT !.pc = "start", !.sess = sid]]
                  ELSE \* logger.logMessage(request) up to its fetch
                       /\ loggers' = g.loggers
                       /\ tasks' = [tasks EXCEPT ![t] =
                                       [me EXCEPT !.pc = "logreq",
                                                  !.conv = l.conversationId,
                                                  !.sess = l.sessionId]]

\* spawnWithLogging(...) / sendWithLogging(...) called by an agent
WrapperCall(t, kind, sessionKey, hasFn) ==
    /\ WrapperEnter(t, kind, sessionKey, hasFn)
    /\ UNCHANGED <<handles, call>>
    /\ UNCHANGED storeVars /\ UNCHANGED apiVars /\ UNCHANGED bridgeVars

\* the create request of task t is answered: the conversation identifier is
\* kept and the request message is logged, or startConversation throws and
\* the wrapper rejects
WrapperStartResolve(t, outcome) ==
    LET me == tasks[t]
        l  == loggers[me.logger]
    IN
    /\ me.pc = "start"
    /\ FetchOpenConversation(
          StartBody(l, {"rio"}, me.sess,
                    Some(WrapperTitle(me.kind, l.initiator, "rio", "task"))),
          outcome)
    /\ IF ResponseOk(outcome)
       THEN LET id == resp'.data[1].id IN
            /\ loggers' = [loggers EXCEPT ![me.logger].conversationId = id]
            /\ tasks' = [tasks EXCEPT ![t] =
                            [me EXCEPT !.pc = "logreq", !.conv = id, !.sess = l.sessionId]]
       ELSE /\ UNCHANGED loggers
            /\ tasks' = [tasks EXCEPT ![t] =
                            [me EXCEPT !.pc = "threw", !.error = "logging"]]
    /\ UNCHANGED <<activeConversations, handles, call>>

\* the append of the request message is answered (errors are swallowed),
\* then sessionsSpawn / sessionsSend is called
WrapperLogReqResolve(t, outcome) ==
    LET me == tasks[t]
        l  == loggers[me.logger]
    IN
    /\ me.pc = "logreq"
    /\ FetchAppendMessage(me.conv,
          [LogBody(l, RequestMsg(me.kind, l.initiator, "task"))
              EXCEPT !.metadata = [session_id |-> me.sess]], outcome)
    /\ tasks' = [tasks EXCEPT ![t] = [me EXCEPT !.pc = "wrapped", !.invoked = TRUE,
                                                !.reqConv = me.conv]]
    /\ UNCHANGED <<loggers, activeConversations, handles, call>>

\* sessionsSpawn / sessionsSend settles
WrapperWrappedResolve(t, fnOk) ==
    LET me == tasks[t]
        l  == loggers[me.logger]
    IN
    /\ me.pc = "wrapped"
    /\ tasks' = [tasks EXCEPT ![t] =
          IF fnOk
          THEN IF me.kind = "spawn"
               THEN \* log the response, then return with _missionBoard
                    TaskLogOrSkip(t, l, "logresp",
                       [me EXCEPT !.pc = "done", !.result = l.conversationId])
               ELSE [me EXCEPT !.pc = "done"]
          ELSE \* catch: log the error, then rethrow
               TaskLogOrSkip(t, l, "logerr",
                  [me EXCEPT !.pc = "threw", !.error = "wrapped"])]
    /\ UNCHANGED <<loggers, activeConversations, handles, call>>
    /\ UNCHANGED storeVars /\ UNCHANGED apiVars /\ UNCHANGED bridgeVars

\* the append of the response message is answered; spawnWithLogging returns
\* { ...result, _missionBoard: { conversationId: logger.getConversationId() } }
WrapperLogRespResolve(t, outcome) ==
    LET me == tasks[t]
        l  == loggers[me.logger]
    IN
    /\ me.pc = "logresp"
    /\ FetchAppendMessage(me.conv,
          [LogBody(l, ResponseMsg("rio", "task", "done"))
              EXCEPT !.metadata = [session_id |-> me.sess]], outcome)
    /\ tasks' = [tasks EXCEPT ![t] =
                    [me EXCEPT !.pc = "done", !.result = l.conversationId]]
    /\ UNCHANGED <<loggers, activeConversations, handles, call>>

\* the append of the error message is answered; the wrapper rethrows the
\* error of sessionsSpawn / sessionsSend
WrapperLogErrResolve(t, outcome) ==
    LET me == tasks[t]
        l  == loggers[me.logger]
    IN
    /\ me.pc = "logerr"
    /\ FetchAppendMessage(me.conv,
          [LogBody(l, ErrorMsg(me.kind, "rio"))
              EXCEPT !.metadata = [session_id |-> me.sess]], outcome)
    /\ tasks' = [tasks EXCEPT ![t] = [me EXCEPT !.pc = "threw", !.error = "wrapped"]]
    /\ UNCHANGED <<loggers, activeConversations, handles, call>>

NextWrappers ==
    \/ \E t \in Tasks, sk \in {"s1", NULL}, f \in BOOLEAN : WrapperCall(t, "spawn", sk, f)
    \/ \E t \in Tasks, f \in BOOLEAN : WrapperCall(t, "send", "s1", f)
    \/ \E t \in Tasks, o \in FetchOutcomes : WrapperStartResolve(t, o)
    \/ \E t \in Tasks, o \in FetchOutcomes : WrapperLogReqResolve(t, o)
    \/ \E t \in Tasks, ok \in BOOLEAN : WrapperWrappedResolve(t, ok)
    \/ \E t \in Tasks, o \in FetchOutcomes : WrapperLogRespResolve(t, o)
    \/ \E t \in Tasks, o \in FetchOutcomes : WrapperLogErrResolve(t, o)

SpecWrappers == Init /\ [][NextWrappers]_vars

\* ------------------------------------ agent-logger.js: createAgentLogger

\* the key both handles are created with
HandleKey == CacheKey("nexar", "rio", "s1")

\* createAgentLogger(initiator, participant, sessionKey): a new
\* ConversationLogger behind a new handle; the cache is not consulted
CreateAgentLogger(h) ==
    /\ handles[h].pc = "none"
    /\ Len(loggers) < MaxLoggers
    /\ loggers' = Append(loggers, NewLogger("ConversationLogger", "nexar"))
    /\ handles' = [handles EXCEPT ![h] =
                      [NoHandle EXCEPT !.pc = "ready", !.logger = Len(loggers) + 1]]
    /\ UNCHANGED <<activeConversations, tasks, call>>
    /\ UNCHANGED storeVars /\ UNCHANGED apiVars /\ UNCHANGED bridgeVars

\* title || `${initiator} <-> ${participant}` of start(title, metadata)
HandleTitle(title, initiator, participant) ==
    IF title # None THEN title[1] ELSE initiator \o " <-> " \o participant

\* getId: () => logger.getConversationId()
HandleGetId(h) == loggers[handles[h].logger].conversationId

\* start(title, metadata) up to the fetch of logger.startConversation
HandleStart(h) ==
    /\ handles[h].pc = "ready"
    /\ loggers' = [loggers EXCEPT ![handles[h].logger].sessionId = HandleKey[3]]
    /\ handles' = [handles EXCEPT ![h].pc = "starting", ![h].sess = HandleKey[3]]
    /\ UNCHANGED <<activeConversations, tasks, call>>
    /\ UNCHANGED storeVars /\ UNCHANGED apiVars /\ UNCHANGED bridgeVars

\* the create request is answered: the identifier is kept and the handle's
\* logger is put in the cache under the key, or start() rejects
HandleStartResolve(h, outcome) ==
    LET me == handles[h]
        l  == loggers[me.logger]
    IN
    /\ me.pc = "starting"
    /\ FetchOpenConversation(
          StartBody(l, {"rio"}, me.sess, Some(HandleTitle(None, l.initiator, "rio"))),
          outcome)
    /\ IF ResponseOk(outcome)
       THEN /\ loggers' = [loggers EXCEPT ![me.logger].conversationId = resp'.data[1].id]
            /\ activeConversations' =
                  [k \in DOMAIN activeConversations \cup {HandleKey} |->
                      IF k = HandleKey THEN me.logger ELSE activeConversations[k]]
            /\ handles' = [handles EXCEPT ![h].pc = "ready"]
       ELSE \* startConversation throws and start() rejects
            /\ UNCHANGED <<loggers, activeConversations>>
            /\ handles' = [handles EXCEPT ![h].pc = "ready"]
    /\ UNCHANGED <<tasks, call>>

\* inputTokens || estimateTokens(content)
OrEstimate(n, text) == IF n = None \/ n[1] = 0 THEN EstimateTokens(text) ELSE n[1]

\* outputTokens || 0
OrZero(n) == IF n = None THEN 0 ELSE n[1]

\* model || 'unknown'
OrUnknown(model) == IF model = None THEN "unknown" ELSE model[1]

\* the message handle.log({...}) passes to logger.logMessage
HandleLogMsg(arg) ==
    [ agent_name    |-> "nexar",
      role          |-> "user",
      content       |-> arg.content,
      input_tokens  |-> Some(OrEstimate(arg.inputTokens, arg.content)),
      output_tokens |-> Some(OrZero(arg.outputTokens)),
      model         |-> Some(OrUnknown(arg.model)) ]

\* log({...}) up to the fetch of logger.logMessage; without a conversation
\* logMessage warns and returns, and so does log
HandleLog(h, arg) ==
    LET me == handles[h]
        l  == loggers[me.logger]
    IN
    /\ me.pc = "ready"
    /\ IF l.conversationId = NoId
       THEN /\ UNCHANGED handles
            /\ call' = [i |-> me.logger, op |-> "log", outcome |-> "ok",
                        ok |-> FALSE, threw |-> FALSE, data |-> FALSE,
                        before |-> NoId, failed |-> call.failed]
       ELSE /\ handles' = [handles EXCEPT ![h] =
                              [me EXCEPT !.pc = "logging", !.conv = l.conversationId,
                                         !.sess = l.sessionId, !.arg = arg]]
            /\ UNCHANGED call
    /\ UNCHANGED <<loggers, activeConversations, tasks>>
    /\ UNCHANGED storeVars /\ UNCHANGED apiVars /\ UNCHANGED bridgeVars

\* the append request is answered; errors are swallowed
HandleLogResolve(h, outcome) ==
    LET me == handles[h]
        l  == loggers[me.logger]
    IN
    /\ me.pc = "logging"
    /\ FetchAppendMessage(me.conv,
          [LogBody(l, HandleLogMsg(me.arg))
              EXCEPT !.metadata = [session_id |-> me.sess]], outcome)
    /\ handles' = [handles EXCEPT ![h].pc = "ready", ![h].arg = NoCounts]
    /\ call' = [i |-> me.logger, op |-> "log", outcome |-> outcome,
                ok |-> ResponseOk(outcome), threw |-> FALSE,
                data |-> ResponseOk(outcome),
                before |-> me.conv, failed |-> call.failed]
    /\ UNCHANGED <<loggers, activeConversations, tasks>>

\* end: logger.endConversation(); activeConversations.delete(key)
HandleEnd(h) ==
    /\ handles[h].pc = "ready"
    /\ loggers' = [loggers EXCEPT ![handles[h].logger] = EndedLogger(@)]
    /\ activeConversations' =
          [k \in DOMAIN activeConversations \ {HandleKey} |-> activeConversations[k]]
    /\ UNCHANGED <<handles, tasks, call>>
    /\ UNCHANGED storeVars /\ UNCHANGED apiVars /\ UNCHANGED bridgeVars

NextClient ==
    \/ \E h \in Handles : CreateAgentLogger(h)
    \/ \E h \in Handles : HandleStart(h)
    \/ \E h \in Handles, o \in {"ok", "network"} : HandleStartResolve(h, o)
    \/ \E h \in Handles : HandleLog(h, NoCounts)
    \/ \E h \in Handles, o \in {"ok", "network"} : HandleLogResolve(h, o)
    \/ \E h \in Handles : HandleEnd(h)
    \/ WrapperCall("t1", "send", "s1", TRUE)
    \/ \E o \in {"ok", "network"} : WrapperStartResolve("t1", o)
    \/ \E o \in {"ok", "network"} : WrapperLogReqResolve("t1", o)
    \/ WrapperWrappedResolve("t1", TRUE)

SpecClient == Init /\ [][NextClient]_vars

\* the arguments of handle.log({...}): counts not given, given as 0, given
LogArgs ==
    [ content      : {"note"},
      inputTokens  : {None, Some(0), Some(7)},
      outputTokens : {None, Some(0), Some(3)},
      model        : {None} ]

\* one handle, logging with and without explicit token counts
NextHandle ==
    \/ CreateAgentLogger("h1")
    \/ HandleStart("h1")
    \/ \E o \in FetchOutcomes : HandleStartResolve("h1", o)
    \/ \E arg \in LogArgs : HandleLog("h1", arg)
    \/ \E o \in FetchOutcomes : HandleLogResolve("h1", o)
    \/ HandleEnd("h1")

SpecHandle == Init /\ [][NextHandle]_vars

\* ------------------------ nexar-helpers.js: coordinateProject, relayConversation

\* the awaits of a workflow after start(): a log of the project logger by an
\* author, or a spawnWithLogging; `push` marks the log after which
\* results.push(...) comes
LogStep(agent, push) == [do |-> "log", agent |-> agent, push |-> push]
SpawnStep(agent) == [do |-> "spawn", agent |-> agent, push |-> FALSE]

\* for (const task of tasks) { log delegation; spawnWithLogging; log summary;
\* results.push }
RECURSIVE ProjectLoop(_)
ProjectLoop(agents) ==
    IF agents = <<>> THEN <<>>
    ELSE <<LogStep("nexar", FALSE), SpawnStep(Head(agents)), LogStep(Head(agents), TRUE)>>
            \o ProjectLoop(Tail(agents))

\* coordinateProject after start(): kickoff, the loop, completion
ProjectScript(agents) ==
    <<LogStep("nexar", FALSE)>> \o ProjectLoop(agents) \o <<LogStep("nexar", FALSE)>>

\* relayConversation after start(): the question, the relay note, the spawn,
\* the two logs of the answer
RelayScript(fromAgent, toAgent) ==
    << LogStep(fromAgent, FALSE), LogStep("nexar", FALSE), SpawnStep(toAgent),
       LogStep("nexar", FALSE), LogStep(fromAgent, FALSE) >>

\* the task record of the k-th spawnWithLogging of a workflow
TaskSeq == <<"t1", "t2">>

\* the cache key of the workflow's handle
WorkflowKey(h) == CacheKey("nexar", handles[h].wf.participant, handles[h].sess)

\* coordinateProject(projectName, tasks, sessionsSpawn) or
\* relayConversation(fromAgent, toAgent, question, sessionsSpawn), up to the
\* fetch of start(): createAgentLogger('nexar', 'team', `project-${Date.now()}`)
\* resp. createAgentLogger('nexar', `${fromAgent},${toAgent}`, `relay-...`)
WorkflowCall(h, kind, agents) ==
    LET sess == (IF kind = "project" THEN "project-" ELSE "relay-") \o h
        wf   == [NoWorkflow EXCEPT
                    !.pc = "start", !.kind = kind, !.agents = agents,
                    !.participant = IF kind = "project" THEN "team" ELSE "nexar,rio",
                    !.script = IF kind = "project" THEN ProjectScript(agents)
                               ELSE RelayScript("nexar", "rio")]
    IN
    /\ handles[h].pc = "none"
    /\ Len(loggers) < MaxLoggers
    /\ loggers' = Append(loggers, [NewLogger("ConversationLogger", "nexar")
                                      EXCEPT !.sessionId = sess])
    /\ handles' = [handles EXCEPT ![h] =
                      [NoHandle EXCEPT !.pc = "workflow", !.logger = Len(loggers) + 1,
                                       !.sess = sess, !.wf = wf]]
    /\ UNCHANGED <<activeConversations, tasks, call>>
    /\ UNCHANGED storeVars /\ UNCHANGED apiVars /\ UNCHANGED bridgeVars

\* the create request of start() is answered: the identifier is kept and
\* the logger cached, or start() rejects and so does the workflow
WorkflowStartResolve(h, outcome) ==
    LET me == handles[h]
        l  == loggers[me.logger]
    IN
    /\ me.wf.pc = "start"
    /\ FetchOpenConversation(
          StartBody(l, {me.wf.participant}, me.sess,
                    Some(IF me.wf.kind = "project" THEN "Project: demo"
                         ELSE "nexar asks rio")),
          outcome)
    /\ IF ResponseOk(outcome)
       THEN /\ loggers' = [loggers EXCEPT ![me.logger].conversationId = resp'.data[1].id]
            /\ activeConversations' =
                  [k \in DOMAIN activeConversations \cup {WorkflowKey(h)} |->
                      IF k = WorkflowKey(h) THEN me.logger ELSE activeConversations[k]]
            /\ handles' = [handles EXCEPT ![h].wf.pc = "run",
                                          ![h].wf.opened = resp'.data[1].id]
       ELSE /\ UNCHANGED <<loggers, activeConversations>>
            /\ handles' = [handles EXCEPT ![h].wf.pc = "threw"]
    /\ UNCHANGED <<tasks, call>>

\* the message a workflow logs through its handle (counts given as 0)
WorkflowMsg(agent) ==
    [HandleLogMsg([NoCounts EXCEPT !.inputTokens = Some(0), !.outputTokens = Some(0)])
        EXCEPT !.agent_name = agent, !.role = "assistant"]

\* a log of the workflow is answered (errors are swallowed; without a
\* conversation nothing is sent); after the log of a task's summary
\* results.push({..., conversationId: result._missionBoard?.conversationId});
\* after the last log: logger.end(), then return { ..., projectConversationId:
\* projectLogger.getId() } resp. relayConversationId: logger.getId()
WorkflowLogResolve(h, outcome) ==
    LET me   == handles[h]
        l    == loggers[me.logger]
        step == Head(me.wf.script)
        rest == Tail(me.wf.script)
        res  == IF step.push
                THEN Append(me.wf.results,
                            [agent |-> step.agent, conversationId |-> me.wf.pending])
                ELSE me.wf.results
    IN
    /\ me.wf.pc = "run"
    /\ me.wf.script # <<>>
    /\ step.do = "log"
    /\ IF l.conversationId = NoId
       THEN outcome = "ok" /\ UNCHANGED storeVars /\ UNCHANGED apiVars /\ UNCHANGED bridgeVars
       ELSE FetchAppendMessage(l.conversationId, LogBody(l, WorkflowMsg(step.agent)), outcome)
    /\ IF rest = <<>>
       THEN /\ loggers' = [loggers EXCEPT ![me.logger] = EndedLogger(@)]
            /\ activeConversations' =
                  [k \in DOMAIN activeConversations \ {WorkflowKey(h)} |->
                      activeConversations[k]]
            /\ handles' = [handles EXCEPT
                  ![h].wf.script = rest, ![h].wf.results = res,
                  ![h].wf.pc = "returned",
                  ![h].wf.returned = EndedLogger(l).conversationId]
       ELSE /\ UNCHANGED <<loggers, activeConversations>>
            /\ handles' = [handles EXCEPT ![h].wf.script = rest, ![h].wf.results = res]
    /\ UNCHANGED <<tasks, call>>

\* the workflow calls spawnWithLogging({task, agentId, initiator: 'nexar',
\* sessionsSpawn}) with no sessionKey
WorkflowSpawn(h) ==
    LET me == handles[h]
        t  == TaskSeq[Len(me.wf.results) + 1]
    IN
    /\ me.wf.pc = "run"
    /\ me.wf.script # <<>>
    /\ Head(me.wf.script).do = "spawn"
    /\ WrapperEnter(t, "spawn", NULL, TRUE)
    /\ handles' = [handles EXCEPT ![h].wf.pc = "spawning"]
    /\ UNCHANGED call
    /\ UNCHANGED storeVars /\ UNCHANGED apiVars /\ UNCHANGED bridgeVars

\* spawnWithLogging settles: its result is kept, or its error rejects the
\* workflow
WorkflowSpawnDone(h) ==
    LET me == handles[h]
        t  == TaskSeq[Len(me.wf.results) + 1]
    IN
    /\ me.wf.pc = "spawning"
    /\ tasks[t].pc \in {"done", "threw"}
    /\ handles' = [handles EXCEPT ![h].wf =
          IF tasks[t].pc = "done"
          THEN [@ EXCEPT !.pc = "run", !.script = Tail(@), !.pending = tasks[t].result]
          ELSE [@ EXCEPT !.pc = "threw"]]
    /\ UNCHANGED <<loggers, activeConversations, tasks, call>>
    /\ UNCHANGED storeVars /\ UNCHANGED apiVars /\ UNCHANGED bridgeVars

\* one workflow and the spawns it makes
NextWorkflow ==
    \/ \E agents \in {<<"rio">>, <<"rio", "rio">>} : WorkflowCall("h1", "project", agents)
    \/ WorkflowCall("h1", "relay", <<>>)
    \/ \E o \in FetchOutcomes : WorkflowStartResolve("h1", o)
    \/ \E o \in FetchOutcomes : WorkflowLogResolve("h1", o)
    \/ WorkflowSpawn("h1")
    \/ WorkflowSpawnDone("h1")
    \/ \E t \in Tasks, o \in FetchOutcomes : WrapperStartResolve(t, o)
    \/ \E t \in Tasks, o \in FetchOutcomes : WrapperLogReqResolve(t, o)
    \/ \E t \in Tasks, ok \in BOOLEAN : WrapperWrappedResolve(t, ok)
    \/ \E t \in Tasks, o \in FetchOutcomes : WrapperLogRespResolve(t, o)
    \/ \E t \in Tasks, o \in FetchOutcomes : WrapperLogErrResolve(t, o)

SpecWorkflow == Init /\ [][NextWorkflow]_vars

\* ----------------------------------- Agents.jsx: AgentInteractionLogger
\* (this.activeConversations, sessionKey -> conversationId, is held in
\* activeConversations; a call in flight is held in a task record; `call`
\* keeps the conversation the last successful logAgentSpawn returned, until
\* endSession, and the conversations sessions were ended with)

\* the key of getOrCreateMultiAgentConversation:
\* `multi:${agents.sort().join(',')}:${sessionKey}`
\* for the list agents.sort() left in place
RECURSIVE JoinComma(_)
JoinComma(names) ==
    IF names = <<>> THEN ""
    ELSE IF Len(names) = 1 THEN names[1]
    ELSE names[1] \o "," \o JoinComma(Tail(names))

MultiKey(agents, sessionKey) == "multi:" \o JoinComma(agents) \o ":" \o sessionKey

\* [fromAgent, toAgent] of a message between nexar and rio, after agents.sort()
SortedPair == <<"nexar", "rio">>

\* the body logAgentSpawn creates its conversation with
InteractionConvBody(agentName, sessionKey) ==
    [ initiator_agent |-> "nexar",
      participants    |-> {agentName},
      session_id      |-> sessionKey,
      title           |-> "nexar -> " \o agentName \o ": task..." ]

\* the body getOrCreateMultiAgentConversation creates its conversation with:
\* initiator_agent: agents[0] of the sorted list
MultiConvBody(agents, sessionKey) ==
    [ initiator_agent |-> agents[1],
      participants    |-> Range(agents),
      session_id      |-> sessionKey,
      title           |-> "nexar <-> rio" ]

\* the messages of logAgentSpawn, logAgentResponse and logAgentToAgent
InteractionMsg(kind) ==
    [ agent_name    |-> IF kind = "response" THEN "rio" ELSE "nexar",
      role          |-> "assistant",
      content       |-> "task",
      input_tokens  |-> IF kind = "spawnlog" THEN Some(0)
                        ELSE Some(EstimateTokens("task")),
      output_tokens |-> Some(0),
      model         |-> IF kind = "response" THEN Some("moonshot/kimi-k2.5")
                        ELSE Some("system"),
      metadata      |-> NoMetadata ]

\* a task record free for a new call
Free(t) == tasks[t].pc \in {"idle", "done"}

\* logAgentSpawn(agentName, task, sessionKey) up to its first await: the
\* conversation of the session is looked up, else one is created
LogAgentSpawn(t, sessionKey) ==
    /\ Free(t)
    /\ tasks' = [tasks EXCEPT ![t] =
          IF sessionKey \in DOMAIN activeConversations
          THEN [IdleTask EXCEPT !.pc = "logging", !.kind = "spawnlog",
                                !.sess = sessionKey,
                                !.conv = activeConversations[sessionKey]]
          ELSE [IdleTask EXCEPT !.pc = "creating", !.kind = "spawnlog",
                                !.sess = sessionKey]]
    /\ UNCHANGED <<loggers, activeConversations, handles, call>>
    /\ UNCHANGED storeVars /\ UNCHANGED apiVars /\ UNCHANGED bridgeVars

\* logAgentResponse(agentName, response, sessionKey, tokenUsage) up to its
\* await: without a conversation for the session it warns and returns
LogAgentResponse(t, sessionKey) ==
    /\ Free(t)
    /\ tasks' = [tasks EXCEPT ![t] =
          IF sessionKey \in DOMAIN activeConversations
          THEN [IdleTask EXCEPT !.pc = "logging", !.kind = "response",
                                !.sess = sessionKey,
                                !.conv = activeConversations[sessionKey]]
          ELSE [IdleTask EXCEPT !.pc = "done", !.kind = "response",
                                !.sess = sessionKey]]
    /\ UNCHANGED <<loggers, activeConversations, handles, call>>
    /\ UNCHANGED storeVars /\ UNCHANGED apiVars /\ UNCHANGED bridgeVars

\* logAgentToAgent(fromAgent, toAgent, message, sessionKey) up to its first
\* await, in getOrCreateMultiAgentConversation
LogAgentToAgent(t, sessionKey) ==
    LET key == MultiKey(SortedPair, sessionKey) IN
    /\ Free(t)
    /\ tasks' = [tasks EXCEPT ![t] =
          IF key \in DOMAIN activeConversations
          THEN [IdleTask EXCEPT !.pc = "logging", !.kind = "a2a",
                                !.sess = sessionKey, !.conv = activeConversations[key]]
          ELSE [IdleTask EXCEPT !.pc = "creating", !.kind = "a2a",
                                !.sess = sessionKey]]
    /\ UNCHANGED <<loggers, activeConversations, handles, call>>
    /\ UNCHANGED storeVars /\ UNCHANGED apiVars /\ UNCHANGED bridgeVars

\* the create request of a call is answered: the identifier is put in the map
\* under the call's key and the message is sent, or apiCall throws and the
\* call's catch ends it (logAgentSpawn returns null)
InteractionCreateResolve(t, outcome) ==
    LET me  == tasks[t]
        key == IF me.kind = "a2a" THEN MultiKey(SortedPair, me.sess) ELSE me.sess
    IN
    /\ me.pc = "creating"
    /\ FetchOpenConversation(
          IF me.kind = "a2a" THEN MultiConvBody(SortedPair, me.sess)
          ELSE InteractionConvBody("rio", me.sess), outcome)
    /\ IF ResponseOk(outcome)
       THEN /\ activeConversations' =
                  [k \in DOMAIN activeConversations \cup {key} |->
                      IF k = key THEN resp'.data[1].id ELSE activeConversations[k]]
            /\ tasks' = [tasks EXCEPT ![t] =
                            [me EXCEPT !.pc = "logging", !.conv = resp'.data[1].id]]
       ELSE /\ UNCHANGED activeConversations
            /\ tasks' = [tasks EXCEPT ![t] = [me EXCEPT !.pc = "done", !.error = "logging"]]
    /\ UNCHANGED <<loggers, handles, call>>

\* the append request of a call is answered: logAgentSpawn returns the
\* conversation identifier, or null from its catch
InteractionLogResolve(t, outcome) ==
    LET me == tasks[t] IN
    /\ me.pc = "logging"
    /\ FetchAppendMessage(me.conv, InteractionMsg(me.kind), outcome)
    /\ tasks' = [tasks EXCEPT ![t] =
          IF ResponseOk(outcome)
          THEN [me EXCEPT !.pc = "done",
                          !.result = IF me.kind = "spawnlog" THEN me.conv ELSE NoId]
          ELSE [me EXCEPT !.pc = "done", !.error = "logging"]]
    /\ call' = IF ResponseOk(outcome) /\ me.kind = "spawnlog"
               THEN [call EXCEPT !.op = "logAgentSpawn", !.ok = TRUE, !.before = me.conv]
               ELSE call
    /\ UNCHANGED <<loggers, activeConversations, handles>>

\* endSession(sessionKey): this.activeConversations.delete(sessionKey)
EndSession(sessionKey) ==
    /\ activeConversations' =
          [k \in DOMAIN activeConversations \ {sessionKey} |-> activeConversations[k]]
    /\ call' = [call EXCEPT
          !.op = "endSession", !.ok = FALSE, !.before = NoId,
          !.failed = @ \cup {activeConversations[k] :
                               k \in DOMAIN activeConversations
                                       \cap {sessionKey,
                                             MultiKey(SortedPair, sessionKey)}}]
    /\ UNCHANGED <<loggers, tasks, handles>>
    /\ UNCHANGED storeVars /\ UNCHANGED apiVars /\ UNCHANGED bridgeVars

\* the singleton agentLogger, its calls made for one session key
NextInteraction ==
    \/ \E t \in Tasks : LogAgentSpawn(t, "s1")
    \/ \E t \in Tasks : LogAgentResponse(t, "s1")
    \/ \E t \in Tasks : LogAgentToAgent(t, "s1")
    \/ \E t \in Tasks, o \in FetchOutcomes : InteractionCreateResolve(t, o)
    \/ \E t \in Tasks, o \in FetchOutcomes : InteractionLogResolve(t, o)
    \/ EndSession("s1")

SpecInteraction == Init /\ [][NextInteraction]_vars

\* -------------------------- live-logger.sh over log-conversation.js (CLI)
\* (the shell's _CURRENT_CONVERSATION_ID and _CURRENT_SESSION_ID are the
\* conversationId and sessionId of a logger record of class "live-logger.sh";
\* `call` keeps the last function's name, its return status 0 in ok, and in
\* data whether the backend was contacted)

\* the word console.log('CONVERSATION_ID:', result.id) prints for a body
\* without an id, as the shell's cut -d' ' -f2 captures it: "undefined"
UndefinedId == -1

\* makeRequest resolves with the parsed body whatever the status: result.id
\* of the answer just received
ResultId == IF resp'.status = 201 THEN resp'.data[1].id ELSE UndefinedId

\* `source live-logger.sh`: both variables empty
SourceLiveLogger ==
    /\ loggers = <<>>
    /\ loggers' = <<NewLogger("live-logger.sh", "nexar")>>
    /\ UNCHANGED <<activeConversations, tasks, handles, call>>
    /\ UNCHANGED storeVars /\ UNCHANGED apiVars /\ UNCHANGED bridgeVars

\* the body of --action=start with the shell function's defaults
LiveConvBody(sessionId) ==
    [ initiator_agent |-> "nexar",
      participants    |-> {"user"},
      session_id      |-> sessionId,
      title           |-> "Live Conversation" ]

\* start_live_conversation: node prints the CONVERSATION_ID line unless the
\* request itself fails (catch: exit 1); the captured word becomes the
\* current conversation id and the function returns 0 when it is not empty
StartLiveConversation(i, outcome) ==
    /\ i \in DOMAIN loggers
    /\ FetchOpenConversation(LiveConvBody("s1"), outcome)
    /\ LET captured == IF outcome = "network" THEN NoId ELSE ResultId IN
       /\ loggers' = [loggers EXCEPT ![i].sessionId = "s1",
                                     ![i].conversationId = captured]
       /\ call' = [i |-> i, op |-> "start_live_conversation", outcome |-> outcome,
                   ok |-> captured # NoId, threw |-> FALSE, data |-> TRUE,
                   before |-> loggers[i].conversationId, failed |-> call.failed]
    /\ UNCHANGED <<activeConversations, tasks, handles>>

\* the body of --action=message as log_agent_response sends it
LiveMsg ==
    [ agent_name    |-> "nexar",
      role          |-> "assistant",
      content       |-> "hi",
      input_tokens  |-> Some(0),
      output_tokens |-> Some(0),
      model         |-> Some("moonshot/kimi-k2.5"),
      metadata      |-> NoMetadata ]

\* log_live_message: returns 1 at once with no current conversation id;
\* else node prints the MESSAGE_LOGGED line unless the request itself fails,
\* and the function returns 0 when the line is there
LogLiveMessage(i, outcome) ==
    /\ i \in DOMAIN loggers
    /\ IF loggers[i].conversationId = NoId
       THEN /\ UNCHANGED storeVars /\ UNCHANGED apiVars /\ UNCHANGED bridgeVars
            /\ call' = [i |-> i, op |-> "log_live_message", outcome |-> "ok",
                        ok |-> FALSE, threw |-> FALSE, data |-> FALSE,
                        before |-> NoId, failed |-> call.failed]
       ELSE /\ FetchAppendMessage(loggers[i].conversationId, LiveMsg, outcome)
            /\ call' = [i |-> i, op |-> "log_live_message", outcome |-> outcome,
                        ok |-> outcome # "network", threw |-> FALSE, data |-> TRUE,
                        before |-> loggers[i].conversationId, failed |-> call.failed]
    /\ UNCHANGED <<loggers, activeConversations, tasks, handles>>

\* end_live_conversation: both variables emptied
EndLiveConversation(i) ==
    /\ i \in DOMAIN loggers
    /\ loggers' = [loggers EXCEPT ![i] = EndedLogger(@)]
    /\ call' = [i |-> i, op |-> "end_live_conversation", outcome |-> "ok",
                ok |-> TRUE, threw |-> FALSE, data |-> FALSE,
                before |-> loggers[i].conversationId, failed |-> call.failed]
    /\ UNCHANGED <<activeConversations, tasks, handles>>
    /\ UNCHANGED storeVars /\ UNCHANGED apiVars /\ UNCHANGED bridgeVars

\* one shell with the logger sourced, and the clock of the store
NextCli ==
    \/ Tick /\ UNCHANGED clientVars
    \/ SourceLiveLogger
    \/ \E o \in FetchOutcomes : StartLiveConversation(1, o)
    \/ \E o \in FetchOutcomes : LogLiveMessage(1, o)
    \/ EndLiveConversation(1)

SpecCli == Init /\ [][NextCli]_vars

\* --------------------------------------------------------- claims: bridge

\* number of envelopes for message k written to channel ch
EnvelopesFor(ch, k) ==
    Cardinality({i \in DOMAIN received[ch] : received[ch][i].data.id = k})

\* C3: once the change event of message k has been broadcast, every
\* observer whose channel was open before the insertion of k (and is still
\* open at the broadcast, its own write not failing) has received exactly
\* one new_message envelope for k, whose data is the persisted row.
C3_ExactlyOneEnvelope ==
    \A k \in DOMAIN bridge.log :
       \A ch \in (bridge.atInsert[k] \cap bridge.atBroadcast[k]) \ bridge.failed[k] :
          /\ EnvelopesFor(ch, k) = 1
          /\ \A i \in DOMAIN received[ch] :
                received[ch][i].data.id = k
                   => received[ch][i] = [type |-> "new_message", data |-> messages[k]]

\* C8: when the write to one channel fails during the broadcast of message
\* k, every other channel that is open at that broadcast still receives the
\* envelope, and the change-feed callback does not fail.
C8_DeliveryIsolation ==
    \A k \in DOMAIN bridge.log :
       bridge.failed[k] # {} =>
          /\ \A ch \in bridge.atBroadcast[k] \ bridge.failed[k] : EnvelopesFor(ch, k) >= 1
          /\ k \notin bridge.threw

\* C9: the registry holds exactly the channels that have entered Open and
\* have not reached Closed, each once; it never holds a Closed channel.
C9_RegistryTracksChannels ==
    /\ Range(clients) = {ch \in Channels : readyState[ch] \in {"OPEN", "CLOSING"}}
    /\ Len(clients) = Cardinality(Range(clients))
    /\ \A ch \in Range(clients) : readyState[ch] # "CLOSED"

\* a channel whose write failed has been closed and is out of the registry,
\* while another channel is still registered
C9_Witness ==
    \E k \in DOMAIN bridge.log : \E ch \in bridge.failed[k] :
       /\ readyState[ch] = "CLOSED"
       /\ ch \notin Range(clients)
       /\ clients # <<>>

\* C10: a channel that opened after the change event of a message was
\* broadcast never holds that message's envelope.
C10_NoReplay ==
    \A ch \in Channels :
       \A i \in DOMAIN received[ch] : received[ch][i].data.id \notin bridge.missed[ch]

\* a channel opened after one broadcast and received a later one
C10_Witness ==
    \E ch \in Channels : bridge.missed[ch] # {} /\ received[ch] # <<>>

\* position of the change event of message k among the events the bridge
\* has handled, in the order it received them
LogPosition(k) == CHOOSE i \in DOMAIN bridge.log : bridge.log[i].data.id = k

\* C11: the envelopes a channel has received are a subsequence of the change
\* events in the order the bridge received them: each is an event the bridge
\* handled, and a later envelope is of a later event.
C11_NoReorder ==
    \A ch \in Channels :
       /\ \A i \in DOMAIN received[ch] : received[ch][i] \in Range(bridge.log)
       /\ \A i, j \in DOMAIN received[ch] :
             i < j => LogPosition(received[ch][i].data.id)
                         < LogPosition(received[ch][j].data.id)

\* a channel has received the envelopes of two messages of one conversation
C11_Witness ==
    \E ch \in Channels :
       /\ Len(received[ch]) >= 2
       /\ received[ch][1].data.conversation_id = received[ch][2].data.conversation_id

\* ------------------------------------------------------ claims: wrappers

\* the session keys in use
SessionsSeen ==
    {conversations[c].session_id : c \in DOMAIN conversations}
       \cup {messages[i].metadata.session_id : i \in DOMAIN messages}

\* C1: whatever the interleaving of spawnWithLogging and sendWithLogging
\* calls, at most one conversation is opened for a session key and all the
\* messages logged for that key are in one conversation.
C1_OneConversationPerSession ==
    \A s \in SessionsSeen :
       /\ Cardinality({c \in DOMAIN conversations : conversations[c].session_id = s}) <= 1
       /\ \A i, j \in DOMAIN messages :
             (messages[i].metadata.session_id = s /\ messages[j].metadata.session_id = s)
                => messages[i].conversation_id = messages[j].conversation_id

\* C6: a failure to open the conversation is not thrown to the caller of
\* spawnWithLogging / sendWithLogging: a call never ends with the logger's
\* error, and a call that has ended has invoked sessionsSpawn / sessionsSend.
C6_LoggingFailureNotThrown ==
    \A t \in Tasks :
       /\ tasks[t].error # "logging"
       /\ (tasks[t].pc \in {"done", "threw"} /\ tasks[t].error # "nofunction")
             => tasks[t].invoked

\* C2: two handles created by createAgentLogger with the same (initiator,
\* participant, sessionKey): once one has started, the other's getId()
\* returns the same identifier, and no second conversation exists for the key.
C2_HandlesReuseConversation ==
    \A h1, h2 \in Handles :
       (handles[h1].pc # "none" /\ handles[h2].pc # "none" /\ HandleGetId(h1) # NoId)
          => /\ HandleGetId(h2) = HandleGetId(h1)
             /\ Cardinality({c \in DOMAIN conversations :
                                conversations[c].session_id = HandleKey[3]}) <= 1

\* C12: start() on a handle that has already opened its conversation is a
\* no-op: when its call is answered no conversation has been created and
\* the handle's conversation identifier is the one it had.
C12_StartIdempotent ==
    [][\A h \in Handles :
          (handles[h].pc = "starting" /\ handles'[h].pc = "ready"
              /\ loggers[handles[h].logger].conversationId # NoId)
          => /\ conversations' = conversations
             /\ loggers'[handles[h].logger].conversationId
                   = loggers[handles[h].logger].conversationId]_vars

\* C13: log() on a handle whose conversation has not been opened opens the
\* conversation and appends the message: the call ends with the message
\* persisted and the handle holding a conversation identifier.
C13_LogAutoStarts ==
    (call.op = "log" /\ call.before = NoId /\ call.outcome = "ok")
    => /\ call.data
       /\ loggers[call.i].conversationId # NoId

\* C14: when handle.log is given an explicit input or output token count
\* (0 included), the count of the message stored by the append equals the
\* count given; the estimate is used only when no count was given.
C14_EstimateNeverOverwrites ==
    [][\A h \in Handles :
          (handles[h].pc = "logging" /\ handles'[h].pc = "ready"
              /\ Len(messages') = Len(messages) + 1)
          => LET arg == handles[h].arg
                 row == messages'[Len(messages')]
             IN /\ arg.inputTokens # None => row.input_tokens = arg.inputTokens[1]
                /\ arg.outputTokens # None => row.output_tokens = arg.outputTokens[1]
                /\ arg.inputTokens = None
                      => row.input_tokens = EstimateTokens(arg.content)]_vars



\* C7: for each logger class, a logMessage whose append request fails to
\* connect or is answered with a non-2xx status returns normally, without
\* message data, and leaves the object's conversation reference unchanged.
C7_LogMessageNeverThrows ==
    (call.op = "logMessage" /\ call.before # NoId
        /\ (call.outcome = "network" \/ ~call.ok))
    => /\ ~call.threw
       /\ ~call.data
       /\ loggers[call.i].conversationId = call.before

\* an object of every class has had an append request fail, the last one
\* by a non-2xx answer of a server that was reached
C7_Witness ==
    /\ call.failed = 1..3
    /\ call.op = "logMessage" /\ call.before # NoId
    /\ call.outcome # "network" /\ ~call.ok

\* ------------------------------------------------- claims: Ingestion API

\* the messages of the last response: the row an append returned, the rows
\* a read listed
MessagesReturned ==
    IF resp.status \notin {200, 201} THEN {}
    ELSE IF resp.op = "appendMessage" THEN {resp.data[1]}
    ELSE IF resp.op = "getConversation" THEN Range(resp.data[1].messages)
    ELSE {}

\* C21: every stored message, the message an append returns and every
\* message a read lists has total_tokens = input_tokens + output_tokens.
C21_TotalIsSum ==
    \A m \in Range(messages) \cup MessagesReturned :
       m.total_tokens = m.input_tokens + m.output_tokens

\* a read lists a message appended with 10 input and 20 output tokens
C21_Witness ==
    /\ resp.op = "getConversation" /\ resp.status = 200
    /\ \E m \in MessagesReturned :
          m.input_tokens = 10 /\ m.output_tokens = 20 /\ m.total_tokens = 30

\* a step that answers a read of a conversation with its messages
ReadAnswered ==
    resp' # resp /\ resp'.op = "getConversation" /\ resp'.status = 200

\* C23: a read of conversation C lists exactly the stored messages of C, a
\* message created earlier before one created later, and when a message was
\* appended at a later time than C was created, C's updated_at is later
\* than its created_at.
C23_ReadInCreationOrder ==
    [][ReadAnswered =>
          LET ms == resp'.data[1].messages
              cv == resp'.data[1].conversation
          IN /\ Range(ms) = {m \in Range(messages) : m.conversation_id = resp'.req.id}
             /\ Len(ms) = Cardinality(Range(ms))
             /\ \A i, j \in DOMAIN ms :
                   ms[i].created_at < ms[j].created_at => i < j
             /\ (\E i \in DOMAIN ms : ms[i].created_at > cv.created_at)
                   => cv.updated_at > cv.created_at]_vars

\* a read has listed two messages appended at different times, in that
\* order, while another conversation is stored besides the one read
C23_Witness ==
    /\ resp.op = "getConversation" /\ resp.status = 200
    /\ Len(resp.data[1].messages) = 2
    /\ resp.data[1].messages[1].created_at < resp.data[1].messages[2].created_at
    /\ resp.data[1].messages[1].id < resp.data[1].messages[2].id
    /\ resp.data[1].conversation.updated_at > resp.data[1].conversation.created_at
    /\ \E c \in DOMAIN conversations : c # resp.req.id

\* the sum of the field f over the stored messages at the positions idx
RECURSIVE SumAt(_, _)
SumAt(idx, f) ==
    IF idx = {} THEN 0
    ELSE LET i == CHOOSE j \in idx : TRUE
         IN messages[i][f] + SumAt(idx \ {i}, f)

AuthoredBy(a) == {i \in DOMAIN messages : messages[i].agent_name = a}

\* C24: the statistics answered have an entry for exactly the authors of the
\* stored messages, each with the number of the author's stored messages and
\* the sums of their input and of their output token counts.
C24_StatsExact ==
    [][resp' # resp /\ resp'.op = "stats" /\ resp'.status = 200 =>
          LET stats == resp'.data[1]
          IN /\ DOMAIN stats = {m.agent_name : m \in Range(messages)}
             /\ \A a \in DOMAIN stats :
                   /\ stats[a].agent_name = a
                   /\ stats[a].total_messages = Cardinality(AuthoredBy(a))
                   /\ stats[a].total_input_tokens = SumAt(AuthoredBy(a), "input_tokens")
                   /\ stats[a].total_output_tokens = SumAt(AuthoredBy(a), "output_tokens")]_vars

\* statistics answered for two stored messages of rio, one with counts 10/20
\* and one with the counts omitted, and none of nexar
C24_Witness ==
    /\ resp.op = "stats" /\ resp.status = 200
    /\ DOMAIN resp.data[1] = {"rio"}
    /\ resp.data[1]["rio"].total_messages = 2
    /\ resp.data[1]["rio"].total_input_tokens = 10
    /\ resp.data[1]["rio"].total_output_tokens = 20

\* the stored conversations that carry the session_id k
WithSession(convs, k) == {c \in DOMAIN convs : convs[c].session_id = k}

\* C25: every answered openConversation adds one conversation row, under an
\* identifier no stored conversation has, and leaves the stored ones as they
\* are: the conversations sharing its session_id are one more than before.
C25_NoDeduplication ==
    [][resp' # resp /\ resp'.op = "openConversation" /\ resp'.status = 201 =>
          LET row == resp'.data[1]
          IN /\ row.id \notin DOMAIN conversations
             /\ DOMAIN conversations' = DOMAIN conversations \cup {row.id}
             /\ conversations'[row.id] = row
             /\ \A c \in DOMAIN conversations : conversations'[c] = conversations[c]
             /\ Cardinality(WithSession(conversations', row.session_id))
                   = Cardinality(WithSession(conversations, row.session_id)) + 1]_vars

\* a second openConversation with the session_id of the first has been
\* answered: two conversations of distinct ids share the session_id
C25_Witness ==
    /\ resp.op = "openConversation" /\ resp.status = 201
    /\ Cardinality(WithSession(conversations, resp.data[1].session_id)) = 2
    /\ resp.data[1].id \in DOMAIN conversations

C27_ListByLastModified ==
    [][resp' # resp /\ resp'.op = "listConversations" /\ resp'.status = 200 =>
          LET rows == resp'.data[1].rows
          IN \A i, j \in DOMAIN rows :
               rows[i].updated_at > rows[j].updated_at => i < j]_vars

\* C28: the title supplied when a conversation is opened is the title of
\* the stored conversation, as a read returns it (here every conversation
\* is opened by startConversation or startSession with SuppliedTitle).
C28_TitleStored ==
    \A c \in DOMAIN conversations : conversations[c].title = SuppliedTitle

\* C29: the model supplied with a message is the model of the stored
\* message and of the row the new_message envelopes are made of (here every
\* message is logged with SuppliedModel).
C29_ModelStored ==
    /\ \A m \in Range(messages) : m.model = SuppliedModel
    /\ \A m \in Range(feed) : m.model = SuppliedModel

\* a step of end() on the handle h1: the handle stays as it is while its
\* logger or the cache changes
EndStep ==
    /\ handles' = handles
    /\ loggers' # loggers \/ activeConversations' # activeConversations

\* C30: end() leaves the handle's logger without a conversation identifier
\* and the cache without the handle's key, and leaves the stored
\* conversations and messages as they are: no request is answered and no
\* change event is raised by it.
C30_EndClearsLocalOnly ==
    [][EndStep =>
          /\ loggers'[handles["h1"].logger].conversationId = NoId
          /\ HandleKey \notin DOMAIN activeConversations'
          /\ conversations' = conversations
          /\ messages' = messages
          /\ feed' = feed
          /\ resp' = resp]_vars

\* end() has been called on a handle that had started a conversation and
\* logged a message: both are stored, the handle has no conversation
C30_Witness ==
    /\ handles["h1"].pc = "ready"
    /\ loggers[handles["h1"].logger].conversationId = NoId
    /\ HandleKey \notin DOMAIN activeConversations
    /\ conversations # <<>>
    /\ messages # <<>>

\* C22: every persisted message has input and output token counts that are
\* non-negative integers.
C22_TokensNonNegative ==
    \A m \in Range(messages) : m.input_tokens \in Nat /\ m.output_tokens \in Nat

\* C18: when the insert of an append has succeeded, the request is answered
\* 201 with the persisted message whether or not the update of updated_at
\* succeeds, and the message stays stored.
C18_TouchBestEffort ==
    [][\A r \in Reqs :
          (reqs[r].pc = "touching" /\ reqs'[r].pc = "idle")
          => /\ resp'.op = "appendMessage" /\ resp'.status = 201
             /\ resp'.data = reqs[r].data
             /\ messages' = messages
             /\ resp'.data[1] \in Range(messages')]_vars

\* an append was answered 201 with its message stored although its touch
\* failed: updated_at is still the time of the insert, before the touch's
C18_Witness ==
    /\ resp.op = "appendMessage" /\ resp.status = 201 /\ ~resp.touched
    /\ resp.data[1] \in Range(messages)
    /\ conversations[resp.req.id].updated_at = resp.data[1].created_at
    /\ now > resp.data[1].created_at

\* C19: an appendMessage or a getConversationWithMessages for an identifier
\* of no stored conversation, with the store working, is answered with a
\* client error (4xx, not the 500 of a store failure) and creates no message.
C19_NotFoundIsClientError ==
    [][(/\ resp' # resp
        /\ resp'.op \in {"appendMessage", "getConversation"}
        /\ resp'.storeOk
        /\ reqs' = reqs
        /\ resp'.req.id \notin DOMAIN conversations)
       => /\ resp'.status \in 400..499
          /\ messages' = messages]_vars

\* C20: no conversation is stored without an initiator and no message
\* without a role or with missing or empty content: a request lacking a
\* required field creates no row.
C20_ValidationBeforeStore ==
    /\ \A c \in DOMAIN conversations : conversations[c].initiator_agent # NULL
    /\ \A i \in DOMAIN messages :
          /\ messages[i].role # NULL
          /\ messages[i].content \notin {NULL, ""}

\* the conversations a step deletes
DeletedByStep == DOMAIN conversations \ DOMAIN conversations'

\* a step that answers a purgeRange request
PurgeAnswered == resp' # resp /\ resp'.op = "purgeRange"

\* C15: a step that deletes a set D of conversations leaves exactly the
\* messages whose conversation is not in D, in their order, and leaves the
\* conversations outside D as they were.
C15_CascadeExact ==
    [][DeletedByStep # {} =>
          /\ messages' = SelectSeq(messages,
                             LAMBDA m : m.conversation_id \notin DeletedByStep)
          /\ \A c \in DOMAIN conversations' : conversations'[c] = conversations[c]]_vars

\* a purge has deleted a conversation and its messages while a message of
\* another conversation is still stored
C15_Witness ==
    /\ resp.op = "purgeRange" /\ resp.status = 200
    /\ resp.data[1].deletedCount >= 1
    /\ Len(messages) = 1 /\ nextMsgId = 3
    /\ messages[1].conversation_id \in DOMAIN conversations

\* C16: a purgeRange(from, to) that succeeds deletes exactly the
\* conversations created in [from, to], end points included, one that does
\* not succeed deletes nothing, and with from > to nothing is deleted.
C16_PurgeExactRange ==
    [][PurgeAnswered =>
          LET from == resp'.req.from
              to   == resp'.req.to
          IN /\ resp'.status = 200 =>
                   DeletedByStep = {c \in DOMAIN conversations :
                                       /\ from[1] <= conversations[c].created_at
                                       /\ conversations[c].created_at <= to[1]}
             /\ resp'.status # 200 => DeletedByStep = {}
             /\ (from # None /\ to # None /\ from[1] > to[1]) => DeletedByStep = {}]_vars

\* a purge over [t, t] has deleted the conversation created at t and left
\* one created outside the range
C16_Witness ==
    /\ resp.op = "purgeRange" /\ resp.status = 200
    /\ resp.req.from = resp.req.to
    /\ resp.data[1].deletedCount = 1
    /\ \E c \in DOMAIN conversations : conversations[c].created_at # resp.req.from[1]

\* C17: a purgeRange request with from or to missing is answered 400 and
\* the stored conversations and messages are unchanged.
C17_PurgeNeedsBothBounds ==
    [][(PurgeAnswered /\ (resp'.req.from = None \/ resp'.req.to = None)) =>
          /\ resp'.status = 400
          /\ conversations' = conversations
          /\ messages' = messages]_vars

\* a purge with only one bound was rejected with conversations and messages
\* stored that the other bound covers
C17_Witness ==
    /\ resp.op = "purgeRange" /\ resp.status = 400
    /\ resp.req.from = None /\ resp.req.to # None
    /\ \E c \in DOMAIN conversations : conversations[c].created_at <= resp.req.to[1]
    /\ messages # <<>>

\* C4: appending a message to a conversation never decreases the
\* conversation's last-modified timestamp, whatever the interleaving of
\* concurrent appends: no step lowers updated_at of a stored conversation.
C4_UpdatedAtNeverDecreases ==
    [][\A c \in DOMAIN conversations :
          conversations'[c].updated_at >= conversations[c].updated_at]_vars

\* C5: every stored conversation's participant set contains its initiator,
\* and so does the conversation returned by openConversation.
C5_InitiatorInParticipants ==
    /\ \A c \in DOMAIN conversations :
          conversations[c].initiator_agent \in conversations[c].participants
    /\ (resp.op = "openConversation" /\ resp.status = 201)
          => resp.data[1].initiator_agent \in resp.data[1].participants

\* ------------------------------------------------- claims: frame and race

\* the stored message with identifier k
MessageById(msgs, k) == CHOOSE m \in Range(msgs) : m.id = k

\* C31: no step changes a stored message: a message stored before and after
\* a step has all its fields as before, identifiers are never shared, and a
\* message stored before a step and not after it belonged to a conversation
\* the step deletes.
C31_MessagesImmutable ==
    [][/\ \A m \in Range(messages) :
             IF \E n \in Range(messages') : n.id = m.id
             THEN MessageById(messages', m.id) = m
             ELSE m.conversation_id \in DeletedByStep
        /\ \A i, j \in DOMAIN messages' : messages'[i].id = messages'[j].id => i = j]_vars

\* two messages appended at different times are stored as created after a
\* later append and a purge that deleted nothing
C31_Witness ==
    /\ reqs["r1"].pc = "idle"
    /\ resp.op = "purgeRange" /\ resp.status = 200
    /\ resp.data[1].deletedCount = 0
    /\ Len(messages) = 2
    /\ messages[1].id = 1 /\ messages[2].id = 2
    /\ messages[1].created_at < messages[2].created_at
    /\ messages[2].created_at < now

\* a step in which the insert of an append for conversation c is refused
InsertRefused(c) ==
    /\ resp' # resp
    /\ reqs' = reqs
    /\ resp'.op = "appendMessage"
    /\ resp'.req.id = c

\* C33: in every state every stored message refers to a stored
\* conversation, and an append whose insert comes after its conversation
\* was deleted is answered NotFound, a client error, and stores nothing.
C33_NoOrphanUnderRace ==
    [][/\ \A m \in Range(messages') : m.conversation_id \in DOMAIN conversations'
        /\ \A c \in 1..MaxConvs :
              (InsertRefused(c) /\ c < nextConvId /\ c \notin DOMAIN conversations)
                 => /\ resp'.status \in 400..499
                    /\ messages' = messages]_vars

\* C32: no step of the dashboard page (fetching the list, confirming the
\* delete dialog) changes the stored conversations or messages.
C32_ObserversNeverWrite ==
    [][(resp' # resp /\ resp'.op \in {"fetchConversations", "handleConfirmDelete"})
          => conversations' = conversations /\ messages' = messages]_vars

\* ------------------------------------------------------ claims: wrappers

\* a step in which the wrapper of task t ends after logging the error of
\* sessionsSpawn / sessionsSend
ErrorLogged(t) == tasks[t].pc = "logerr" /\ tasks'[t].pc = "threw"

\* C34: when the wrapped call has failed, the wrapper ends by rethrowing the
\* error of the wrapped call, whatever became of logging it, and when the
\* backend is reached with the store working it has appended one message of
\* role system to the task's conversation.
C34_ErrorLoggedAndRethrown ==
    [][\A t \in Tasks :
          ErrorLogged(t) =>
             /\ tasks'[t].error = "wrapped"
             /\ (resp' # resp /\ resp'.storeOk) =>
                   /\ Len(messages') = Len(messages) + 1
                   /\ messages'[Len(messages')].role = "system"
                   /\ messages'[Len(messages')].conversation_id = tasks[t].conv]_vars

\* a step in which spawnWithLogging of task t returns after logging the
\* response
ResponseLogged(t) ==
    tasks[t].kind = "spawn" /\ tasks[t].pc = "logresp" /\ tasks'[t].pc = "done"

\* C35: spawnWithLogging logs the response after sessionsSpawn was invoked
\* with the request sent before, the response goes to the conversation the
\* request went to, written by the spawned agent, and the result's
\* _missionBoard.conversationId is that conversation.
C35_RequestThenResponse ==
    [][\A t \in Tasks :
          ResponseLogged(t) =>
             /\ tasks[t].invoked
             /\ tasks[t].reqConv # NoId
             /\ tasks[t].conv = tasks[t].reqConv
             /\ tasks'[t].result = tasks[t].reqConv
             /\ (resp' # resp /\ resp'.status = 201) =>
                   /\ resp'.data[1].conversation_id = tasks[t].reqConv
                   /\ resp'.data[1].agent_name = "rio"
                   /\ resp'.data[1].role = "assistant"]_vars

\* C36: a coordinateProject or relayConversation that has returned returns
\* the identifier of the conversation its start() opened, and
\* coordinateProject's results hold one entry per task, in task order.
C36_WorkflowReturnsItsConversation ==
    LET wf == handles["h1"].wf IN
    wf.pc = "returned" =>
       /\ wf.returned = wf.opened
       /\ wf.kind = "project" =>
             /\ Len(wf.results) = Len(wf.agents)
             /\ \A i \in DOMAIN wf.results : wf.results[i].agent = wf.agents[i]

\* ------------------------------------- claims: AgentInteractionLogger

\* a step in which task t enters a call of the given kinds
Enters(t, kinds) == Free(t) /\ tasks'[t].kind \in kinds /\ tasks'[t] # tasks[t]

\* C37: while the conversation a successful logAgentSpawn returned for the
\* session is not ended, a logAgentSpawn or logAgentResponse entered later
\* uses that conversation and creates none; a logAgentResponse entered with
\* no conversation kept for the session sends nothing; and no call entered
\* after endSession uses a conversation the session was ended with.
C37_OneConversationPerSession ==
    [][\A t \in Tasks :
          /\ (Enters(t, {"spawnlog", "response"}) /\ call.ok) =>
                 /\ tasks'[t].pc = "logging"
                 /\ tasks'[t].conv = call.before
          /\ (Enters(t, {"response"}) /\ tasks'[t].sess \notin DOMAIN activeConversations) =>
                 /\ tasks'[t].pc = "done"
                 /\ messages' = messages
          /\ (Enters(t, {"spawnlog", "response", "a2a"}) /\ tasks'[t].pc = "logging") =>
                 tasks'[t].conv \notin call.failed]_vars

\* ------------------------------------------- claims: handles and the cache

\* the logger the cache holds under the handles' key is a handle's, has a
\* conversation and keeps it through the step: that handle has started and
\* is not being ended
LiveEntryNotEnded ==
    /\ HandleKey \in DOMAIN activeConversations
    /\ \E h \in Handles : handles[h].logger = activeConversations[HandleKey]
    /\ loggers[activeConversations[HandleKey]].conversationId # NoId
    /\ loggers'[activeConversations[HandleKey]].conversationId # NoId

\* C38: a step removes the cache entry of the key only when it ends the
\* logger the entry holds; the entry of a handle that has started and is
\* not the one being ended stays in the cache.
C38_EndEvictsOnlyItself ==
    [][LiveEntryNotEnded => HandleKey \in DOMAIN activeConversations']_vars

\* ------------------------------------------------------- claims: CLI logger

\* a step of the shell function op
CliStep(op) == call'.op = op /\ (call' # call \/ resp' # resp \/ loggers' # loggers)

\* the current conversation id is one a successful start received
StartedOk(l) == l.conversationId \in DOMAIN conversations \cup 1..(nextConvId - 1)

\* C39: start_live_conversation returns 0, and sets the current conversation
\* id, only when the backend created a conversation (and then to its id);
\* log_live_message returns 0 only when the message was stored; and with no
\* current conversation of a successful start (before it, or after
\* end_live_conversation) log_live_message returns 1 without contacting the
\* backend.
C39_SuccessOnlyOnBackendSuccess ==
    [][/\ CliStep("start_live_conversation") =>
             /\ (call'.ok \/ loggers'[1].conversationId # NoId) =>
                    /\ Cardinality(DOMAIN conversations') = Cardinality(DOMAIN conversations) + 1
                    /\ loggers'[1].conversationId = nextConvId
                    /\ nextConvId \in DOMAIN conversations'
       /\ CliStep("log_live_message") =>
             /\ call'.ok => /\ Len(messages') = Len(messages) + 1
                            /\ messages'[Len(messages')].conversation_id
                                  = loggers[1].conversationId
             /\ ~StartedOk(loggers[1]) => ~call'.ok /\ ~call'.data /\ resp' = resp]_vars

====
